---- MODULE Spec2Model ----
(***************************************************************************)
(* Model of the query-time rerank stage of sentinal-rag:                   *)
(*   packages/api/src/services/reranking.ts  (circuit breaker, batch       *)
(*   scoring, fallback formula) and the degraded substitution of           *)
(*   packages/api/src/routes/query.ts.                                     *)
(*                                                                         *)
(* Spec      the process-wide breaker shared by concurrent rerankChunks    *)
(*           calls, with a discrete clock.  Node runs one callback at a    *)
(*           time, so a call is two atomic steps: its arrival (up to the   *)
(*           await of Promise.all) and its completion (after the await).   *)
(* SpecOutage, SpecRank, SpecFallback                                      *)
(*           the same calls under a scorer outage, with ranked requests,   *)
(*           and on the fallback path.                                     *)
(* SpecRetrieve                                                            *)
(*           hybridRetrieval (keyword and vector search under Promise.all, *)
(*           merge by chunk id, sort, limit).                              *)
(* SpecOrder the settle order of the concurrent searches and of the        *)
(*           concurrent scoring batches.                                   *)
(* SpecQuery one POST /api/v1/query through the five stages of             *)
(*           routes/query.ts, with utils/llm.ts and services/synthesis.ts. *)
(* SpecRecover                                                             *)
(*           the breaker once the scorer answers in time again, with       *)
(*           fairness on arrivals, completions and the clock.              *)
(* SpecEmbed generateEmbedding of utils/embeddings.ts over the Redis cache *)
(*           of utils/redis.ts.                                            *)
(***************************************************************************)
EXTENDS Integers, Sequences, FiniteSets, TLC

\* ---------------------------------------------------------------- constants
failureThreshold == 5
latencyThreshold == 5000
resetTimeout == 30000
latencyLimit == 5000
batchSize == 5

\* ------------------------------------------------------------------- bounds
NumCalls == 2
MaxTicks == 14
MaxChunks == 11
MaxTopK == 3
Period == 3
MaxLatencyTicks == 2
OutageTicks == 6
FallbackTicks == 3
MaxRows == 3
OrderRows == 1
MaxQueryRows == 4
NumEmbedCalls == 2

Calls == 1..NumCalls
\* The clock advances in steps of the latency limit: every comparison the
\* code makes on time (latency > 5000, elapsed >= 30000) is met on both sides.
ClockStep == latencyLimit
MaxTime == MaxTicks * ClockStep
MaxLatency == MaxLatencyTicks * ClockStep

VARIABLES
    circuitBreaker,  \* the module-level RerankingCircuitBreaker instance
    now,             \* Date.now()
    calls,           \* per rerankChunks invocation: where it is suspended
    ev,              \* what the last step did (observation only)
    failRun,         \* failures recorded in a row since the last success (history)
    throwRun,        \* completed calls in a row whose scorer threw (SpecOutage)
    firstServed,     \* the first call the fallback served (history, SpecFallback)
    retrieval,       \* a hybridRetrieval invocation and its two searches
    batchRun,        \* the batch scorings a rerankChunks invocation awaits
    request,         \* a POST /api/v1/query request on its way through the stages
    redis,           \* the embed:* keys of the Redis store
    embedCalls,      \* per generateEmbedding invocation: where it is suspended
    embedEv          \* what the last generateEmbedding step did (observation only)

embedVars == <<redis, embedCalls, embedEv>>
queryVars == <<retrieval, batchRun, request, embedVars>>
rerankVars == <<circuitBreaker, now, calls, ev, failRun>>
vars == <<circuitBreaker, now, calls, ev, failRun, throwRun, firstServed, queryVars>>

\* ------------------------------------------------- RerankingCircuitBreaker
NewBreaker == [state |-> "CLOSED", failureCount |-> 0, lastFailureTime |-> 0]

\* (variant for C5: the reset test written with > instead of >=)
shouldAttemptResetStrict(cb, t) ==
    IF cb.state = "OPEN" /\ t - cb.lastFailureTime > resetTimeout
    THEN [cb |-> [cb EXCEPT !.state = "HALF_OPEN"], ret |-> TRUE]
    ELSE [cb |-> cb, ret |-> FALSE]

\* (variant for C39: a reset attempted only while the counter stands at the
\* threshold)
shouldAttemptResetAtThreshold(cb, t) ==
    IF /\ cb.state = "OPEN"
       /\ cb.failureCount >= failureThreshold
       /\ t - cb.lastFailureTime >= resetTimeout
    THEN [cb |-> [cb EXCEPT !.state = "HALF_OPEN"], ret |-> TRUE]
    ELSE [cb |-> cb, ret |-> FALSE]

shouldAttemptReset(cb, t) ==
    IF cb.state = "OPEN" /\ t - cb.lastFailureTime >= resetTimeout
    THEN [cb |-> [cb EXCEPT !.state = "HALF_OPEN"], ret |-> TRUE]
    ELSE [cb |-> cb, ret |-> FALSE]

shouldUseFallback(cb, t) ==
    LET r == shouldAttemptReset(cb, t)
    IN  [cb |-> r.cb, ret |-> r.cb.state = "OPEN"]

\* (variant for C6: a success that zeroes the counter but leaves the mode)
recordSuccessKeepsState(cb) == [cb EXCEPT !.failureCount = 0]

\* (variant for C33: a success that zeroes the counter only in HALF_OPEN)
recordSuccessInTrialOnly(cb) ==
    IF cb.state = "HALF_OPEN" THEN [cb EXCEPT !.state = "CLOSED", !.failureCount = 0]
    ELSE cb

\* (variant for C35: a success that closes the breaker in any mode)
recordSuccessAlwaysCloses(cb) == [cb EXCEPT !.state = "CLOSED", !.failureCount = 0]

recordSuccess(cb) ==
    [cb EXCEPT !.state = IF @ = "HALF_OPEN" THEN "CLOSED" ELSE @,
               !.failureCount = 0]

\* (variant for C1: the threshold test written with > instead of >=)
recordFailureLate(cb, t) ==
    LET c1 == [cb EXCEPT !.failureCount = @ + 1, !.lastFailureTime = t]
    IN  IF c1.failureCount > failureThreshold
        THEN [c1 EXCEPT !.state = "OPEN"]
        ELSE c1

recordFailure(cb, t) ==
    LET c1 == [cb EXCEPT !.failureCount = @ + 1, !.lastFailureTime = t]
    IN  IF c1.failureCount >= failureThreshold
        THEN [c1 EXCEPT !.state = "OPEN"]
        ELSE c1

\* ---------------------------------------------------------------- numbers
\* Scores are exact rationals n/d with d > 0.
Rat(n, d) == [n |-> n, d |-> d]
Zero == Rat(0, 1)
One == Rat(1, 1)
RLess(a, b) == a.n * b.d < b.n * a.d
REq(a, b) == a.n * b.d = b.n * a.d
RAdd(a, b) == Rat(a.n * b.d + b.n * a.d, a.d * b.d)
RSub(a, b) == Rat(a.n * b.d - b.n * a.d, a.d * b.d)
RMul(a, b) == Rat(a.n * b.n, a.d * b.d)
\* a / b for b > 0
RDiv(a, b) == Rat(a.n * b.d, a.d * b.n)
\* Math.max, Math.min
MathMax(a, b) == IF RLess(a, b) THEN b ELSE a
MathMin(a, b) == IF RLess(b, a) THEN b ELSE a
\* x || 1 on a number: 0 is falsy
OrOne(a) == IF a.n = 0 THEN One ELSE a
Min(i, j) == IF i < j THEN i ELSE j

\* ----------------------------------------------------------- RankedResult
\* { ...chunk, relevanceScore: s }
withScore(chunk, s) ==
    [chunkId |-> chunk.chunkId, vectorScore |-> chunk.vectorScore,
     keywordScore |-> chunk.keywordScore, relevanceScore |-> s]

\* 1 - idx * 0.1, idx counted from 0
defaultScore(idx) == RSub(One, RMul(Rat(idx, 1), Rat(1, 10)))

\* (variant for C10: a sort that puts an element before its equals)
RECURSIVE insertByScoreUnstable(_, _)
insertByScoreUnstable(x, s) ==
    IF s = <<>> THEN <<x>>
    ELSE IF ~RLess(x.relevanceScore, Head(s).relevanceScore)
         THEN <<x>> \o s
         ELSE <<Head(s)>> \o insertByScoreUnstable(x, Tail(s))

\* Array.prototype.sort((a, b) => b.relevanceScore - a.relevanceScore):
\* descending and stable (ECMAScript 2019), so an element goes behind every
\* element already placed whose score is not smaller.
RECURSIVE insertByScore(_, _)
insertByScore(x, s) ==
    IF s = <<>> THEN <<x>>
    ELSE IF RLess(Head(s).relevanceScore, x.relevanceScore)
         THEN <<x>> \o s
         ELSE <<Head(s)>> \o insertByScore(x, Tail(s))

RECURSIVE sortByScore(_)
sortByScore(s) ==
    IF s = <<>> THEN <<>>
    ELSE insertByScore(s[Len(s)], sortByScore(SubSeq(s, 1, Len(s) - 1)))

\* (variant for C26: no slice)
sliceTopNone(s, topK) == s

\* .slice(0, topK) for topK >= 0
sliceTop(s, topK) == SubSeq(s, 1, Min(topK, Len(s)))

\* ---------------------------------------------------------- fallbackRerank
RECURSIVE maxOf(_, _, _)
maxOf(chunks, field, acc) ==
    IF chunks = <<>> THEN acc
    ELSE maxOf(Tail(chunks), field, MathMax(acc, Head(chunks)[field]))

\* (variant for C11: vector and keyword weighted alike)
fallbackRerankEvenWeights(chunks, topK) ==
    IF Len(chunks) = 0 THEN <<>>
    ELSE LET maxVector  == OrOne(maxOf(chunks, "vectorScore", Zero))
             maxKeyword == OrOne(maxOf(chunks, "keywordScore", Zero))
             combinedScore(chunk) ==
                 RAdd(RMul(Rat(5, 10), RDiv(chunk.vectorScore, maxVector)),
                      RMul(Rat(5, 10), RDiv(chunk.keywordScore, maxKeyword)))
             rankedChunks ==
                 [i \in 1..Len(chunks) |-> withScore(chunks[i], combinedScore(chunks[i]))]
         IN  sliceTop(sortByScore(rankedChunks), topK)

fallbackRerank(chunks, topK) ==
    IF Len(chunks) = 0 THEN <<>>
    ELSE LET maxVector  == OrOne(maxOf(chunks, "vectorScore", Zero))
             maxKeyword == OrOne(maxOf(chunks, "keywordScore", Zero))
             combinedScore(chunk) ==
                 RAdd(RMul(Rat(6, 10), RDiv(chunk.vectorScore, maxVector)),
                      RMul(Rat(4, 10), RDiv(chunk.keywordScore, maxKeyword)))
             rankedChunks ==
                 [i \in 1..Len(chunks) |-> withScore(chunks[i], combinedScore(chunks[i]))]
         IN  sliceTop(sortByScore(rankedChunks), topK)

\* ------------------------------------------------------------ scorer (LLM)
\* The text llm.generate answers with, as a sequence of tokens: "[", "]", ",",
\* a JSON number (its value), or "x" for any other run of characters.
sym(t) == [t |-> t, v |-> Zero]
num(v) == [t |-> "num", v |-> v]

\* responseText.match(/\[[\d\s.,]+\]/): the leftmost "[" that is followed by
\* one or more digit/dot/comma characters and then "]".
matchEnd(text, i) ==
    {j \in (i + 2)..Len(text) :
        /\ text[j].t = "]"
        /\ \A k \in (i + 1)..(j - 1) : text[k].t \in {"num", ","}}

matchStarts(text) ==
    {i \in 1..Len(text) : text[i].t = "[" /\ matchEnd(text, i) # {}}

scoresMatch(text) ==
    IF matchStarts(text) = {} THEN [found |-> FALSE, m |-> <<>>]
    ELSE LET i == CHOOSE a \in matchStarts(text) : \A b \in matchStarts(text) : a <= b
             j == CHOOSE a \in matchEnd(text, i) : TRUE
         IN  [found |-> TRUE, m |-> SubSeq(text, i, j)]

\* JSON.parse of the matched text: numbers separated by single commas, or a
\* SyntaxError.
jsonParse(m) ==
    LET inner == SubSeq(m, 2, Len(m) - 1)
        wellFormed ==
            /\ Len(inner) % 2 = 1
            /\ \A k \in 1..Len(inner) :
                  inner[k].t = (IF k % 2 = 1 THEN "num" ELSE ",")
    IN  IF wellFormed
        THEN [threw |-> FALSE,
              scores |-> [k \in 1..((Len(inner) + 1) \div 2) |-> inner[2 * k - 1].v]]
        ELSE [threw |-> TRUE, scores |-> <<>>]

\* chunks.map((chunk, idx) => ({...chunk, relevanceScore: 1 - idx * 0.1}))
defaultScores(chunks) ==
    [i \in 1..Len(chunks) |-> withScore(chunks[i], defaultScore(i - 1))]

\* (variant for C8: the score taken as the scorer gave it)
clampScoreRaw(scores, idx) ==
    IF idx + 1 <= Len(scores) THEN scores[idx + 1] ELSE Zero

\* Math.max(0, Math.min(1, scores[idx] || 0))
clampScore(scores, idx) ==
    LET raw == IF idx + 1 <= Len(scores) THEN scores[idx + 1] ELSE Zero
    IN  MathMax(Zero, MathMin(One, raw))

\* The try block of scoreChunkBatch: what it returns, or that it threw.
scoreChunkBatchTry(chunks, resp) ==
    IF resp.throws THEN [threw |-> TRUE, ranked |-> <<>>]
    ELSE LET sm == scoresMatch(resp.text)
         IN  IF ~sm.found
             THEN [threw |-> FALSE, ranked |-> defaultScores(chunks)]
             ELSE LET p == jsonParse(sm.m)
                  IN  IF p.threw THEN [threw |-> TRUE, ranked |-> <<>>]
                      ELSE [threw |-> FALSE,
                            ranked |-> [i \in 1..Len(chunks) |->
                                withScore(chunks[i], clampScore(p.scores, i - 1))]]

\* (variant for C9: scoreChunkBatch without its catch)
scoreChunkBatchNoCatch(chunks, resp) == scoreChunkBatchTry(chunks, resp)

\* scoreChunkBatch: the try block, and the catch that answers with the
\* default scores.
scoreChunkBatch(chunks, resp) ==
    LET r == scoreChunkBatchTry(chunks, resp)
    IN  IF r.threw THEN [threw |-> FALSE, ranked |-> defaultScores(chunks)]
        ELSE r

\* ------------------------------------------------------------ rerankChunks
\* (variant for C34: one group per candidate)
batchesOfSingle(chunks) == [b \in 1..Len(chunks) |-> <<chunks[b]>>]

\* for (i = 0; i < chunks.length; i += batchSize) batches.push(chunks.slice(i, i + batchSize))
batchesOf(chunks) ==
    [b \in 1..((Len(chunks) + batchSize - 1) \div batchSize) |->
        SubSeq(chunks, (b - 1) * batchSize + 1, Min(b * batchSize, Len(chunks)))]

RECURSIVE flat(_)
flat(ss) == IF ss = <<>> THEN <<>> ELSE Head(ss) \o flat(Tail(ss))

\* The scorer path up to the slice: Promise.all over the batches (it rejects
\* when a batch rejects), flat, sort, slice.
rerankTry(chunks, topK, resps) ==
    LET batches == batchesOf(chunks)
        scored  == [b \in 1..Len(batches) |-> scoreChunkBatch(batches[b], resps[b])]
    IN  IF \E b \in 1..Len(batches) : scored[b].threw
        THEN [threw |-> TRUE, ranked |-> <<>>]
        ELSE [threw |-> FALSE,
              ranked |-> sliceTop(sortByScore(flat([b \in 1..Len(batches) |->
                                                      scored[b].ranked])), topK)]

\* (variant for C7: no catch in scoreChunkBatch nor in rerankChunks)
rerankScoredUnguarded(chunks, topK, resps) ==
    LET batches == batchesOf(chunks)
        scored  == [b \in 1..Len(batches) |-> scoreChunkBatchTry(batches[b], resps[b])]
    IN  IF \E b \in 1..Len(batches) : scored[b].threw
        THEN [threw |-> TRUE, caught |-> FALSE, ranked |-> <<>>]
        ELSE [threw |-> FALSE, caught |-> FALSE,
              ranked |-> sliceTop(sortByScore(flat([b \in 1..Len(batches) |->
                                                      scored[b].ranked])), topK)]

\* The scorer path with its catch: what the call returns, whether it threw
\* to its caller, and whether the catch block ran.
rerankScored(chunks, topK, resps) ==
    LET t == rerankTry(chunks, topK, resps)
    IN  IF t.threw
        THEN [threw |-> FALSE, caught |-> TRUE, ranked |-> fallbackRerank(chunks, topK)]
        ELSE [threw |-> FALSE, caught |-> FALSE, ranked |-> t.ranked]

\* ------------------------------------------------------ query route (degrade)
\* retrievedChunks.slice(0, 6).map((chunk, idx) =>
\*     ({...chunk, relevanceScore: chunk.relevanceScore ?? (1 - idx * 0.1)}))
degradedChunks(retrieved) ==
    [i \in 1..Min(6, Len(retrieved)) |->
        withScore(retrieved[i],
                  IF "relevanceScore" \in DOMAIN retrieved[i]
                  THEN retrieved[i].relevanceScore
                  ELSE defaultScore(i - 1))]

\* ------------------------------------------------------- inputs of the model
\* Candidates as hybridRetrieval hands them over: distinct identifiers, a
\* vector similarity in [0,1], a keyword rank >= 0, no relevanceScore yet.
ScorePairSeq ==
    <<<<Rat(1, 2), Rat(2, 1)>>, <<One, Rat(1, 2)>>, <<Zero, Zero>>>>
ScorePairs == {ScorePairSeq[i] : i \in 1..Len(ScorePairSeq)}

\* Every list of n candidates whose score pairs repeat with period Period.
ChunkLists(n) ==
    {[i \in 1..n |-> [chunkId |-> i,
                      vectorScore |-> f[((i - 1) % Period) + 1][1],
                      keywordScore |-> f[((i - 1) % Period) + 1][2]]] :
        f \in [1..Period -> ScorePairs]}

defaultTopK == 6
TopKs == (0..MaxTopK) \cup {defaultTopK}

RankRequests ==
    {[chunks |-> ch, topK |-> k] :
        ch \in UNION {ChunkLists(n) : n \in 0..MaxChunks}, k \in TopKs}

\* The scorer path does not read the retrieval scores: its requests vary in
\* length and topK only, the score pairs taken in turn.
turnChunks(n) ==
    [i \in 1..n |-> [chunkId |-> i,
                     vectorScore |-> ScorePairSeq[((i - 1) % Len(ScorePairSeq)) + 1][1],
                     keywordScore |-> ScorePairSeq[((i - 1) % Len(ScorePairSeq)) + 1][2]]]

ScorerRequests ==
    {[chunks |-> turnChunks(n), topK |-> k] : n \in 0..MaxChunks, k \in TopKs}


\* The one request the calls of Spec carry: the breaker does not read it.
SpecRequests == {[chunks |-> turnChunks(2), topK |-> defaultTopK]}

\* Scores a scorer may answer with; 3/2 is out of range.
scorePattern(i) ==
    CASE i % 6 = 1 -> Rat(3, 10)
      [] i % 6 = 2 -> Rat(9, 10)
      [] i % 6 = 3 -> Rat(3, 2)
      [] i % 6 = 4 -> Zero
      [] i % 6 = 5 -> Rat(9, 10)
      [] OTHER     -> One

patternScores(n) == [i \in 1..n |-> scorePattern(i)]
tieScores(n) == [i \in 1..n |-> Rat(1, 2)]

\* The text "[s1, s2, ...]"
RECURSIVE arrayBody(_)
arrayBody(scores) ==
    IF Len(scores) = 0 THEN <<>>
    ELSE IF Len(scores) = 1 THEN <<num(scores[1])>>
    ELSE arrayBody(SubSeq(scores, 1, Len(scores) - 1))
            \o <<sym(","), num(scores[Len(scores)])>>

arrayText(scores) == <<sym("[")>> \o arrayBody(scores) \o <<sym("]")>>

textResp(text) == [throws |-> FALSE, text |-> text]

\* What llm.generate may do for a batch of k candidates, by shape.
respOf(shape, k) ==
    CASE shape = "throws"   -> [throws |-> TRUE, text |-> <<>>]
      [] shape = "prose"    -> textResp(<<sym("x")>>)
      [] shape = "badjson"  -> textResp(<<sym("x"), sym("["), sym(","), sym("]")>>)
      [] shape = "exact"    -> textResp(arrayText(patternScores(k)))
      [] shape = "ties"     -> textResp(arrayText(tieScores(k)))
      [] shape = "short"    -> textResp(arrayText(patternScores(k - 1)))
      [] shape = "long"     -> textResp(arrayText(patternScores(k + 1)))
      [] shape = "embedded" -> textResp(<<sym("["), sym("x"), sym("]"), sym("x")>>
                                        \o arrayText(patternScores(k)) \o <<sym("x")>>)

AllShapes == {"throws", "prose", "badjson", "exact", "ties", "short", "long", "embedded"}
SpecShapes == {"throws", "exact"}

\* One shape per batch.
RECURSIVE shapeChoices(_, _)
shapeChoices(nb, Shapes) ==
    IF nb = 0 THEN {<<>>}
    ELSE {rest \o <<sh>> : rest \in shapeChoices(nb - 1, Shapes), sh \in Shapes}

respsOf(shapes, batches) ==
    [b \in 1..Len(batches) |-> respOf(shapes[b], Len(batches[b]))]

\* ------------------------------------------------- rerankChunks as actions
Idle == [pc |-> "idle", startTime |-> 0, entry |-> "CLOSED", req |-> <<>>]

NoEvent == [kind |-> "none", call |-> 0, pre |-> NewBreaker, rec |-> "none",
            req |-> <<>>, shapes |-> <<>>, entry |-> "CLOSED", latency |-> 0,
            caught |-> FALSE, threw |-> FALSE, ranked |-> <<>>]

\* Invocations are anonymous: a new one takes the first free slot.
FreeSlot(c) ==
    /\ calls[c].pc = "idle"
    /\ \A d \in Calls : d < c => calls[d].pc # "idle"

\* (variant for C12: a fallback that ranks only while the counter stands at
\* the threshold)
ArriveFallbackByCounter(c, Reqs) ==
    LET r == shouldUseFallback(circuitBreaker, now)
    IN  /\ FreeSlot(c)
        /\ r.ret
        /\ circuitBreaker' = r.cb
        /\ \E rq \in Reqs :
              ev' = [NoEvent EXCEPT !.kind = "fallback", !.call = c,
                                    !.pre = circuitBreaker, !.req = rq,
                                    !.entry = r.cb.state,
                                    !.ranked = IF r.cb.failureCount >= failureThreshold
                                               THEN fallbackRerank(rq.chunks, rq.topK)
                                               ELSE <<>>]
        /\ UNCHANGED <<now, calls, failRun>>

\* (variant for C37: a fallback call that records a success)
ArriveFallbackRecords(c, Reqs) ==
    LET r == shouldUseFallback(circuitBreaker, now)
    IN  /\ FreeSlot(c)
        /\ r.ret
        /\ circuitBreaker' = recordSuccess(r.cb)
        /\ \E rq \in Reqs :
              ev' = [NoEvent EXCEPT !.kind = "fallback", !.call = c,
                                    !.pre = circuitBreaker, !.req = rq,
                                    !.entry = r.cb.state,
                                    !.ranked = fallbackRerank(rq.chunks, rq.topK)]
        /\ failRun' = 0
        /\ UNCHANGED <<now, calls>>

\* Arrival with the circuit OPEN: fallbackRerank, synchronously, and return.
ArriveFallback(c, Reqs) ==
    LET r == shouldUseFallback(circuitBreaker, now)
    IN  /\ FreeSlot(c)
        /\ r.ret
        /\ circuitBreaker' = r.cb
        /\ \E rq \in Reqs :
              ev' = [NoEvent EXCEPT !.kind = "fallback", !.call = c,
                                    !.pre = circuitBreaker, !.req = rq,
                                    !.entry = r.cb.state,
                                    !.ranked = fallbackRerank(rq.chunks, rq.topK)]
        /\ UNCHANGED <<now, calls, failRun>>

\* Arrival on the scorer path: the batches are handed to scoreChunkBatch and
\* the call suspends on Promise.all.
ArriveScorer(c, Reqs) ==
    LET r == shouldUseFallback(circuitBreaker, now)
    IN  /\ FreeSlot(c)
        /\ ~r.ret
        /\ circuitBreaker' = r.cb
        /\ \E rq \in Reqs :
              /\ calls' = [calls EXCEPT ![c] = [pc |-> "scoring", startTime |-> now,
                                                entry |-> r.cb.state, req |-> rq]]
              /\ ev' = [NoEvent EXCEPT !.kind = "start", !.call = c,
                                       !.pre = circuitBreaker, !.req = rq,
                                       !.entry = r.cb.state]
        /\ UNCHANGED <<now, failRun>>

\* (variant for C38: a failure recorded for every batch whose scorer threw)
RECURSIVE recordFailures(_, _, _)
recordFailures(cb, t, k) ==
    IF k = 0 THEN cb ELSE recordFailures(recordFailure(cb, t), t, k - 1)

CompletePerBatch(c, Shapes) ==
    /\ calls[c].pc = "scoring"
    /\ LET rq      == calls[c].req
           batches == batchesOf(rq.chunks)
       IN  \E shapes \in shapeChoices(Len(batches), Shapes) :
           \E out \in {rerankScored(rq.chunks, rq.topK, respsOf(shapes, batches))} :
             LET latency == now - calls[c].startTime
                 thrown  == Cardinality({b \in 1..Len(shapes) : shapes[b] = "throws"})
                 failed  == thrown > 0 \/ latency > latencyLimit
             IN  /\ circuitBreaker' =
                        IF thrown > 0 THEN recordFailures(circuitBreaker, now, thrown)
                        ELSE IF failed THEN recordFailure(circuitBreaker, now)
                        ELSE recordSuccess(circuitBreaker)
                 /\ ev' = [NoEvent EXCEPT !.kind = "finish", !.call = c,
                                          !.pre = circuitBreaker,
                                          !.rec = IF failed THEN "failure" ELSE "success",
                                          !.req = rq, !.shapes = shapes,
                                          !.entry = calls[c].entry,
                                          !.latency = latency, !.caught = out.caught,
                                          !.threw = out.threw, !.ranked = out.ranked]
                 /\ failRun' = IF failed THEN failRun + thrown ELSE 0
    /\ calls' = [calls EXCEPT ![c] = Idle]
    /\ UNCHANGED now

\* (variant for C32: a call on the latency limit recorded as a failure)
CompleteAtLimit(c, Shapes) ==
    /\ calls[c].pc = "scoring"
    /\ LET rq      == calls[c].req
           batches == batchesOf(rq.chunks)
       IN  \E shapes \in shapeChoices(Len(batches), Shapes) :
           \E out \in {rerankScored(rq.chunks, rq.topK, respsOf(shapes, batches))} :
             LET latency == now - calls[c].startTime
                 failed  == out.caught \/ latency >= latencyLimit
             IN  /\ circuitBreaker' = IF failed THEN recordFailure(circuitBreaker, now)
                                                ELSE recordSuccess(circuitBreaker)
                 /\ ev' = [NoEvent EXCEPT !.kind = "finish", !.call = c,
                                          !.pre = circuitBreaker,
                                          !.rec = IF failed THEN "failure" ELSE "success",
                                          !.req = rq, !.shapes = shapes,
                                          !.entry = calls[c].entry,
                                          !.latency = latency, !.caught = out.caught,
                                          !.threw = out.threw, !.ranked = out.ranked]
                 /\ failRun' = IF failed THEN failRun + 1 ELSE 0
    /\ calls' = [calls EXCEPT ![c] = Idle]
    /\ UNCHANGED now

\* Completion of the scorer path: the batches have answered; sort, slice,
\* measure the latency and record the outcome (or the catch block).
Complete(c, Shapes) ==
    /\ calls[c].pc = "scoring"
    /\ LET rq      == calls[c].req
           batches == batchesOf(rq.chunks)
       IN  \E shapes \in shapeChoices(Len(batches), Shapes) :
           \E out \in {rerankScored(rq.chunks, rq.topK, respsOf(shapes, batches))} :
             LET latency == now - calls[c].startTime
                 failed  == out.caught \/ latency > latencyLimit
             IN  /\ circuitBreaker' = IF failed THEN recordFailure(circuitBreaker, now)
                                                ELSE recordSuccess(circuitBreaker)
                 /\ ev' = [NoEvent EXCEPT !.kind = "finish", !.call = c,
                                          !.pre = circuitBreaker,
                                          !.rec = IF failed THEN "failure" ELSE "success",
                                          !.req = rq, !.shapes = shapes,
                                          !.entry = calls[c].entry,
                                          !.latency = latency, !.caught = out.caught,
                                          !.threw = out.threw, !.ranked = out.ranked]
                 /\ failRun' = IF failed THEN failRun + 1 ELSE 0
    /\ calls' = [calls EXCEPT ![c] = Idle]
    /\ UNCHANGED now

\* The scorer answers within MaxLatency; any latency above latencyLimit is
\* recorded alike.
Tick(limit) ==
    /\ now + ClockStep <= limit
    /\ \A c \in Calls :
          calls[c].pc = "scoring" => now + ClockStep - calls[c].startTime <= MaxLatency
    /\ now' = now + ClockStep
    /\ ev' = NoEvent
    /\ UNCHANGED <<circuitBreaker, calls, failRun>>

\* ------------------------------------------------------------- Promise.all
\* A promise: pending, fulfilled with a value, or rejected.
PendingSlot == [st |-> "pending", value |-> <<>>]
Fulfilled(v) == [st |-> "fulfilled", value |-> v]
Rejected == [st |-> "rejected", value |-> <<>>]

\* The await of Promise.all resumes once a promise has rejected or all are
\* fulfilled.
canResume(slots) ==
    \/ \E i \in 1..Len(slots) : slots[i].st = "rejected"
    \/ \A i \in 1..Len(slots) : slots[i].st = "fulfilled"

\* (variant for C16: the searches that failed count as having found nothing)
promiseAllLenient(slots, order) ==
    [threw |-> FALSE, values |-> [i \in 1..Len(slots) |-> slots[i].value]]

\* (variant for C18: the values handed over in the order of settlement)
promiseAllAsSettled(slots, order) ==
    IF \E i \in 1..Len(slots) : slots[i].st = "rejected"
    THEN [threw |-> TRUE, values |-> <<>>]
    ELSE [threw |-> FALSE, values |-> [i \in 1..Len(slots) |-> slots[order[i]].value]]

\* Promise.all: rejects when a promise rejects, else the values by position
\* in the array it was given; the order of settlement plays no part.
promiseAll(slots, order) ==
    IF \E i \in 1..Len(slots) : slots[i].st = "rejected"
    THEN [threw |-> TRUE, values |-> <<>>]
    ELSE [threw |-> FALSE, values |-> [i \in 1..Len(slots) |-> slots[i].value]]

\* ---------------------------------------------------------- hybridRetrieval
\* results.map(row => ...) of keywordSearch and of vectorSearch; row.score is
\* a float the driver hands over as a number, which parseFloat leaves as is.
keywordResult(row) ==
    [chunkId |-> row.chunk_id, score |-> row.score, vectorScore |-> Zero,
     keywordScore |-> row.score, source |-> "keyword"]

\* (variant for C14: a vector row that also fills the keyword score)
vectorResultBothScores(row) ==
    [chunkId |-> row.chunk_id, score |-> row.score, vectorScore |-> row.score,
     keywordScore |-> row.score, source |-> "vector"]

vectorResult(row) ==
    [chunkId |-> row.chunk_id, score |-> row.score, vectorScore |-> row.score,
     keywordScore |-> Zero, source |-> "vector"]

\* A Map<chunkId, RetrievalResult> as the sequence of its values in insertion
\* order: set() on a key already present replaces the value where it stands.
mapHas(m, id) == \E i \in 1..Len(m) : m[i].chunkId = id
mapGet(m, id) == m[CHOOSE i \in 1..Len(m) : m[i].chunkId = id]
mapSet(m, r) ==
    IF mapHas(m, r.chunkId)
    THEN [i \in 1..Len(m) |-> IF m[i].chunkId = r.chunkId THEN r ELSE m[i]]
    ELSE Append(m, r)

RECURSIVE addKeywordResults(_, _)
addKeywordResults(m, keywordResults) ==
    IF keywordResults = <<>> THEN m
    ELSE addKeywordResults(mapSet(m, Head(keywordResults)), Tail(keywordResults))

\* (variant for C13: the duplicate taken over from the vector result with
\* only its merge score raised)
RECURSIVE addVectorResultsMaxOnly(_, _)
addVectorResultsMaxOnly(m, vectorResults) ==
    IF vectorResults = <<>> THEN m
    ELSE LET result == Head(vectorResults)
             next ==
                 IF mapHas(m, result.chunkId)
                 THEN LET existing == mapGet(m, result.chunkId)
                      IN  mapSet(m, [result EXCEPT
                                        !.score = MathMax(existing.score, result.score),
                                        !.source = "hybrid"])
                 ELSE mapSet(m, result)
         IN  addVectorResultsMaxOnly(next, Tail(vectorResults))

RECURSIVE addVectorResults(_, _)
addVectorResults(m, vectorResults) ==
    IF vectorResults = <<>> THEN m
    ELSE LET result == Head(vectorResults)
             next ==
                 IF mapHas(m, result.chunkId)
                 THEN LET existing == mapGet(m, result.chunkId)
                      IN  mapSet(m, [result EXCEPT
                                        !.score = MathMax(existing.score, result.score),
                                        !.vectorScore = result.vectorScore,
                                        !.keywordScore = existing.keywordScore,
                                        !.source = "hybrid"])
                 ELSE mapSet(m, result)
         IN  addVectorResults(next, Tail(vectorResults))

mergeResults(keywordResults, vectorResults) ==
    addVectorResults(addKeywordResults(<<>>, keywordResults), vectorResults)

\* merged.sort((a, b) => b.score - a.score): descending and stable.
RECURSIVE insertByMergeScore(_, _)
insertByMergeScore(x, s) ==
    IF s = <<>> THEN <<x>>
    ELSE IF RLess(Head(s).score, x.score)
         THEN <<x>> \o s
         ELSE <<Head(s)>> \o insertByMergeScore(x, Tail(s))

\* (variant for C15: the merged list left in the order of the Map)
sortByMergeScoreNot(s) == s

RECURSIVE sortByMergeScore(_)
sortByMergeScore(s) ==
    IF s = <<>> THEN <<>>
    ELSE insertByMergeScore(s[Len(s)], sortByMergeScore(SubSeq(s, 1, Len(s) - 1)))

\* What hybridRetrieval does once the await of Promise.all resumes.
hybridRanked(all, topK) ==
    IF all.threw THEN [threw |-> TRUE, merged |-> <<>>, ranked |-> <<>>]
    ELSE LET merged == mergeResults(all.values[1], all.values[2])
         IN  [threw |-> FALSE, merged |-> merged,
              ranked |-> sliceTop(sortByMergeScore(merged), topK)]

\* Rows a search may answer with: at most topK rows (LIMIT), one per chunk
\* (id is the primary key), best score first (ORDER BY).  Identifiers are
\* only compared for equality, so the keyword rows carry 1, 2, ... in turn.
RowIds == 1..(MaxRows + 1)
KeywordRowScores == {Rat(1, 2), Rat(2, 1)}
VectorRowScores == {Zero, Rat(1, 2), One}

bestFirst(rows) ==
    \A i \in 1..(Len(rows) - 1) : ~RLess(rows[i].score, rows[i + 1].score)
distinctIds(rows) ==
    \A i, j \in 1..Len(rows) : i # j => rows[i].chunk_id # rows[j].chunk_id

KeywordRows(topK) ==
    UNION {{rows \in [1..n -> [chunk_id : RowIds, score : KeywordRowScores]] :
               /\ \A i \in 1..n : rows[i].chunk_id = i
               /\ bestFirst(rows)} : n \in 0..Min(topK, MaxRows)}

VectorRows(topK) ==
    UNION {{rows \in [1..n -> [chunk_id : RowIds, score : VectorRowScores]] :
               distinctIds(rows) /\ bestFirst(rows)} : n \in 0..Min(topK, MaxRows)}

IdleRetrieval ==
    [pc |-> "idle", limit |-> 0, slots |-> <<>>, order |-> <<>>,
     merged |-> <<>>, out |-> <<>>]

\* hybridRetrieval up to the await: both searches are started.
RetrieveStart(topK) ==
    /\ retrieval.pc = "idle"
    /\ retrieval' = [IdleRetrieval EXCEPT !.pc = "searching", !.limit = topK,
                                          !.slots = <<PendingSlot, PendingSlot>>]

\* The keyword query answers with rows (one of Rows), or fails.
KeywordSettle(Rows) ==
    /\ retrieval.pc \in {"searching", "threw"}
    /\ retrieval.slots[1].st = "pending"
    /\ \E slot \in {Rejected} \cup
                    {Fulfilled([i \in 1..Len(rows) |-> keywordResult(rows[i])]) :
                        rows \in Rows} :
          retrieval' = [retrieval EXCEPT !.slots[1] = slot, !.order = Append(@, 1)]

\* The vector query answers with rows (one of Rows), or fails.
VectorSettle(Rows) ==
    /\ retrieval.pc \in {"searching", "threw"}
    /\ retrieval.slots[2].st = "pending"
    /\ \E slot \in {Rejected} \cup
                    {Fulfilled([i \in 1..Len(rows) |-> vectorResult(rows[i])]) :
                        rows \in Rows} :
          retrieval' = [retrieval EXCEPT !.slots[2] = slot, !.order = Append(@, 2)]

\* hybridRetrieval after the await: merge, sort, slice and return, or the
\* catch that logs and throws again.
RetrieveResume ==
    /\ retrieval.pc = "searching"
    /\ canResume(retrieval.slots)
    /\ LET h == hybridRanked(promiseAll(retrieval.slots, retrieval.order), retrieval.limit)
       IN  retrieval' = [retrieval EXCEPT !.pc = IF h.threw THEN "threw" ELSE "returned",
                                          !.merged = h.merged, !.out = h.ranked]

\* ------------------------------------- rerankChunks, one batch at a time
IdleBatches == [slots |-> <<>>, shapes |-> <<>>, order |-> <<>>]

\* Arrival on the scorer path: batches.map(batch => scoreChunkBatch(...))
\* starts one scoring per batch.
ArriveBatches(c, Reqs) ==
    /\ ArriveScorer(c, Reqs)
    /\ batchRun' = [slots  |-> [b \in 1..Len(batchesOf(calls'[c].req.chunks)) |-> PendingSlot],
                    shapes |-> [b \in 1..Len(batchesOf(calls'[c].req.chunks)) |-> "pending"],
                    order  |-> <<>>]

\* The scorer answers for batch b and scoreChunkBatch settles.
BatchSettle(c, b, shape) ==
    /\ calls[c].pc = "scoring"
    /\ b \in 1..Len(batchRun.slots)
    /\ batchRun.slots[b].st = "pending"
    /\ LET batch == batchesOf(calls[c].req.chunks)[b]
           r     == scoreChunkBatch(batch, respOf(shape, Len(batch)))
       IN  batchRun' = [batchRun EXCEPT
                           !.slots[b] = IF r.threw THEN Rejected ELSE Fulfilled(r.ranked),
                           !.shapes[b] = shape,
                           !.order = Append(@, b)]

\* rerankChunks after the await of Promise.all: flat, sort, slice, measure
\* the latency and record the outcome (or the catch block).
CompleteSettled(c) ==
    /\ calls[c].pc = "scoring"
    /\ canResume(batchRun.slots)
    /\ LET rq  == calls[c].req
           all == promiseAll(batchRun.slots, batchRun.order)
           ranked == IF all.threw THEN fallbackRerank(rq.chunks, rq.topK)
                     ELSE sliceTop(sortByScore(flat(all.values)), rq.topK)
           latency == now - calls[c].startTime
           failed  == all.threw \/ latency > latencyLimit
       IN  /\ circuitBreaker' = IF failed THEN recordFailure(circuitBreaker, now)
                                          ELSE recordSuccess(circuitBreaker)
           /\ ev' = [NoEvent EXCEPT !.kind = "finish", !.call = c,
                                    !.pre = circuitBreaker,
                                    !.rec = IF failed THEN "failure" ELSE "success",
                                    !.req = rq, !.shapes = batchRun.shapes,
                                    !.entry = calls[c].entry,
                                    !.latency = latency, !.caught = all.threw,
                                    !.threw = FALSE, !.ranked = ranked]
           /\ failRun' = IF failed THEN failRun + 1 ELSE 0
    /\ calls' = [calls EXCEPT ![c] = Idle]
    /\ UNCHANGED <<now, batchRun>>

\* ------------------------------------------------------------ llm.generate
\* A text is a sequence of tokens: single blanks and words, a word given by
\* its lower-case spelling and by whether it is written with capital letters.
Word(w, caps) == [w |-> w, caps |-> caps]
Space == Word(" ", FALSE)

\* The words, a blank between two of them.
RECURSIVE Text(_, _)
Text(words, caps) ==
    IF Len(words) = 0 THEN <<>>
    ELSE IF Len(words) = 1 THEN <<Word(words[1], caps)>>
    ELSE Text(SubSeq(words, 1, Len(words) - 1), caps)
            \o <<Space, Word(words[Len(words)], caps)>>

RECURSIVE trimStart(_)
trimStart(text) ==
    IF text # <<>> /\ Head(text) = Space THEN trimStart(Tail(text)) ELSE text

RECURSIVE trimEnd(_)
trimEnd(text) ==
    IF text # <<>> /\ text[Len(text)] = Space
    THEN trimEnd(SubSeq(text, 1, Len(text) - 1))
    ELSE text

trim(text) == trimEnd(trimStart(text))

\* GroqClient.generate: the completion request fails, or
\* response.choices[0]?.message?.content?.trim() || ''
generate(completion) ==
    IF completion.kind = "error" THEN [threw |-> TRUE, text |-> <<>>]
    ELSE [threw |-> FALSE,
          text |-> IF completion.kind = "content" THEN trim(completion.text) ELSE <<>>]

\* ---------------------------------------------------------- synthesizeAnswer
refusalPhrases ==
    {Text(<<"don't", "have", "enough", "information">>, FALSE),
     Text(<<"insufficient", "information">>, FALSE),
     Text(<<"cannot", "answer">>, FALSE),
     Text(<<"not", "enough", "context">>, FALSE),
     Text(<<"unable", "to", "answer">>, FALSE)}

toLowerCase(text) == [i \in 1..Len(text) |-> [text[i] EXCEPT !.caps = FALSE]]

\* String.prototype.includes
includes(text, phrase) ==
    \E i \in 1..(Len(text) - Len(phrase) + 1) :
        SubSeq(text, i, i + Len(phrase) - 1) = phrase

\* (variant for C28: phrases looked for as they are written)
checkIfRefusalCaseSensitive(answer) ==
    \E phrase \in refusalPhrases : includes(answer, phrase)

checkIfRefusal(answer) ==
    \E phrase \in refusalPhrases : includes(toLowerCase(answer), phrase)

NoSynthesis ==
    [threw |-> FALSE, context |-> <<>>, generated |-> <<>>, answer |-> <<>>,
     sourceChunkIds |-> <<>>, refusal |-> FALSE]

\* (variant for C27: only the passages of an answer that is not a refusal)
synthesizeAnswerCited(chunks, completion) ==
    LET context == [i \in 1..Len(chunks) |-> [idx |-> i, content |-> chunks[i].chunkId]]
        g       == generate(completion)
    IN  IF g.threw THEN [NoSynthesis EXCEPT !.threw = TRUE, !.context = context]
        ELSE [threw |-> FALSE, context |-> context, generated |-> g.text,
              answer |-> g.text,
              sourceChunkIds |-> IF checkIfRefusal(g.text) THEN <<>>
                                 ELSE [i \in 1..Len(chunks) |-> chunks[i].chunkId],
              refusal |-> checkIfRefusal(g.text)]

\* context: the passages written into the prompt, "[idx] content" each, in
\* the order of the chunks (a passage's content stands under its identifier);
\* generated: the text llm.generate returned.
synthesizeAnswer(chunks, completion) ==
    LET context == [i \in 1..Len(chunks) |-> [idx |-> i, content |-> chunks[i].chunkId]]
        g       == generate(completion)
    IN  IF g.threw THEN [NoSynthesis EXCEPT !.threw = TRUE, !.context = context]
        ELSE [threw |-> FALSE, context |-> context, generated |-> g.text,
              answer |-> g.text,
              sourceChunkIds |-> [i \in 1..Len(chunks) |-> chunks[i].chunkId],
              refusal |-> checkIfRefusal(g.text)]

\* ------------------------------------------------------ POST /api/v1/query
embeddingDimension == 384
staleDimension == 1536
maxQueryLength == 1000
defaultRetrievalTopK == 30

StageOrder == <<"Embedding", "Retrieval", "Reranking", "Synthesis", "Response">>

LATENCY_BUDGETS ==
    [RETRIEVAL |-> 200, RERANKING |-> 500, SYNTHESIS |-> 3000, TOTAL |-> 5000]

\* Durations of the stages with a budget, in ms: on the budget and above it.
StageDurations ==
    [retrieval |-> {200, 201}, reranking |-> {0, 500, 501},
     synthesis |-> {3000, 3200}]

NoReply ==
    [status |-> 0, error |-> "", hasRequestId |-> FALSE, answer |-> <<>>,
     refusal |-> FALSE, sources |-> <<>>, chunksRetrieved |-> 0,
     chunksReranked |-> 0, chunksUsed |-> 0, latencyBudgetViolations |-> <<>>]

\* latency: what the route has measured so far, in ms; rerank: how the call
\* of rerankChunks ended; writes: the INSERTs into query_evaluations issued.
IdleRequest ==
    [pc |-> "idle", started |-> <<>>, completed |-> <<>>, topK |-> 0, dim |-> 0,
     retrieved |-> <<>>, reranked |-> <<>>, completion |-> "none",
     persisted |-> "none", response |-> NoReply, reply |-> NoReply,
     latency |-> [embedding |-> 0, retrieval |-> 0, reranking |-> 0,
                  synthesis |-> 0, total |-> 0],
     rerankerStartTime |-> 0, rerank |-> "none", synthesis |-> NoSynthesis,
     writes |-> 0]

\* A stage took ms: its latency, and the time since the request came in
\* (the time the handler spends between two stages is not counted).
measured(req, stage, ms) ==
    [req EXCEPT !.latency = [@ EXCEPT ![stage] = ms, !.total = @ + ms]]

\* (variant for C22: a stage on its budget counted as over it)
latencyBudgetViolationsAtBudget(latency) ==
    LET checks == <<[name |-> "retrieval",
                     over |-> latency.retrieval >= LATENCY_BUDGETS.RETRIEVAL],
                    [name |-> "reranking",
                     over |-> latency.reranking >= LATENCY_BUDGETS.RERANKING],
                    [name |-> "synthesis",
                     over |-> latency.synthesis >= LATENCY_BUDGETS.SYNTHESIS],
                    [name |-> "total",
                     over |-> latency.total >= LATENCY_BUDGETS.TOTAL]>>
        kept   == SelectSeq(checks, LAMBDA c : c.over)
    IN  [i \in 1..Len(kept) |-> kept[i].name]

\* [cond ? 'name' : null, ...].filter(Boolean)
latencyBudgetViolations(latency) ==
    LET checks == <<[name |-> "retrieval",
                     over |-> latency.retrieval > LATENCY_BUDGETS.RETRIEVAL],
                    [name |-> "reranking",
                     over |-> latency.reranking > LATENCY_BUDGETS.RERANKING],
                    [name |-> "synthesis",
                     over |-> latency.synthesis > LATENCY_BUDGETS.SYNTHESIS],
                    [name |-> "total",
                     over |-> latency.total > LATENCY_BUDGETS.TOTAL]>>
        kept   == SelectSeq(checks, LAMBDA c : c.over)
    IN  [i \in 1..Len(kept) |-> kept[i].name]

\* QueryRequestSchema.safeParse
validBody(body) ==
    /\ body.queryLength >= 1
    /\ body.queryLength <= maxQueryLength
    /\ body.topK.given => body.topK.value > 0

\* reply.code(status).send({error, requestId})
failureReply(status, error) ==
    [NoReply EXCEPT !.status = status, !.error = error, !.hasRequestId = TRUE]

\* A stage is over and the next one is entered.
nextStage(req, done, next) ==
    [req EXCEPT !.completed = Append(@, done), !.started = Append(@, next)]

\* The fields of a retrieved chunk the rerank stage reads.
candidates(retrieved) ==
    [i \in 1..Len(retrieved) |->
        [chunkId |-> retrieved[i].chunkId, vectorScore |-> retrieved[i].vectorScore,
         keywordScore |-> retrieved[i].keywordScore]]

\* The handler up to its first await: validation, then generateEmbedding.
Receive(body) ==
    /\ request.pc = "idle"
    /\ request' =
          IF ~validBody(body)
          THEN [request EXCEPT !.pc = "replied",
                               !.reply = [NoReply EXCEPT !.status = 400,
                                                         !.error = "Invalid request"]]
          ELSE [request EXCEPT !.pc = "embedding", !.started = <<"Embedding">>,
                               !.topK = IF body.topK.given THEN body.topK.value
                                        ELSE defaultRetrievalTopK]

\* generateEmbedding settles: 503, or on to hybridRetrieval.
EmbeddingSettle(outcome) ==
    /\ request.pc = "embedding"
    /\ IF outcome.threw
       THEN /\ request' = [request EXCEPT
                              !.pc = "replied",
                              !.reply = failureReply(503, "Embedding service unavailable")]
            /\ UNCHANGED retrieval
       ELSE /\ request' = [nextStage(measured(request, "embedding", outcome.ms),
                                     "Embedding", "Retrieval") EXCEPT
                              !.pc = "retrieval", !.dim = outcome.dim]
            /\ RetrieveStart(request.topK)

\* (variant for C19: a route that goes straight to synthesizeAnswer when
\* nothing was retrieved)
RetrievalStageSettleSkipsRerank ==
    /\ request.pc = "retrieval"
    /\ RetrieveResume
    /\ IF retrieval'.pc = "threw"
       THEN /\ request' = [request EXCEPT
                              !.pc = "replied",
                              !.reply = failureReply(503, "Retrieval service failed")]
            /\ UNCHANGED rerankVars
       ELSE \E ms \in StageDurations.retrieval :
            LET rq  == [chunks |-> candidates(retrieval'.out), topK |-> defaultTopK]
                got == [nextStage(measured(request, "retrieval", ms),
                                  "Retrieval", "Reranking") EXCEPT
                           !.retrieved = retrieval'.out, !.rerankerStartTime = now]
            IN  \/ /\ retrieval'.out = <<>>
                   /\ request' = [nextStage(request, "Retrieval", "Synthesis") EXCEPT
                                     !.pc = "synthesis"]
                   /\ UNCHANGED rerankVars
                \/ /\ retrieval'.out # <<>>
                   /\ ArriveFallback(1, {rq})
                   /\ request' = [nextStage(got, "Reranking", "Synthesis") EXCEPT
                                     !.pc = "synthesis", !.reranked = ev'.ranked,
                                     !.rerank = "fallback"]
                \/ /\ retrieval'.out # <<>>
                   /\ ArriveScorer(1, {rq})
                   /\ request' = [got EXCEPT !.pc = "reranking"]

\* hybridRetrieval settles: 503, or on to rerankChunks, which either serves
\* the fallback at once (and synthesizeAnswer is called) or awaits the scorer.
RetrievalStageSettle ==
    /\ request.pc = "retrieval"
    /\ RetrieveResume
    /\ IF retrieval'.pc = "threw"
       THEN /\ request' = [request EXCEPT
                              !.pc = "replied",
                              !.reply = failureReply(503, "Retrieval service failed")]
            /\ UNCHANGED rerankVars
       ELSE \E ms \in StageDurations.retrieval :
            LET rq  == [chunks |-> candidates(retrieval'.out), topK |-> defaultTopK]
                got == [nextStage(measured(request, "retrieval", ms),
                                  "Retrieval", "Reranking") EXCEPT
                           !.retrieved = retrieval'.out, !.rerankerStartTime = now]
            IN  \/ /\ ArriveFallback(1, {rq})
                   /\ request' = [nextStage(got, "Reranking", "Synthesis") EXCEPT
                                     !.pc = "synthesis", !.reranked = ev'.ranked,
                                     !.rerank = "fallback"]
                \/ /\ ArriveScorer(1, {rq})
                   /\ request' = [got EXCEPT !.pc = "reranking"]

\* The time the route measures around rerankChunks: the time on the clock,
\* and below one step of the clock one of the durations of StageDurations.
rerankerLatency(ms) ==
    IF now = request.rerankerStartTime THEN ms ELSE now - request.rerankerStartTime

\* rerankChunks settles with its ranking, and synthesizeAnswer is called.
RerankStageSettle(Shapes) ==
    /\ request.pc = "reranking"
    /\ Complete(1, Shapes)
    /\ \E ms \in StageDurations.reranking :
          request' = [nextStage(measured(request, "reranking", rerankerLatency(ms)),
                                "Reranking", "Synthesis") EXCEPT
                         !.pc = "synthesis", !.reranked = ev'.ranked,
                         !.rerank = "scored"]

\* (variant for C21: a route that answers 503 when rerankChunks rejects)
RerankStageThrowsAborts ==
    /\ request.pc = "reranking"
    /\ calls[1].pc = "scoring"
    /\ circuitBreaker' = recordFailure(circuitBreaker, now)
    /\ ev' = [NoEvent EXCEPT !.kind = "finish", !.call = 1, !.pre = circuitBreaker,
                             !.rec = "failure", !.req = calls[1].req,
                             !.entry = calls[1].entry,
                             !.latency = now - calls[1].startTime,
                             !.caught = TRUE, !.threw = TRUE]
    /\ failRun' = failRun + 1
    /\ calls' = [calls EXCEPT ![1] = Idle]
    /\ request' = [request EXCEPT
                      !.pc = "replied", !.rerank = "threw",
                      !.reply = failureReply(503, "Reranking service failed")]
    /\ UNCHANGED now

\* The promise of rerankChunks rejects: an error raised in its catch block,
\* after recordFailure, which no handler of the reranker confines.  The catch
\* of the route substitutes the retrieved chunks, and synthesizeAnswer is
\* called.
RerankStageThrows ==
    /\ request.pc = "reranking"
    /\ calls[1].pc = "scoring"
    /\ circuitBreaker' = recordFailure(circuitBreaker, now)
    /\ ev' = [NoEvent EXCEPT !.kind = "finish", !.call = 1, !.pre = circuitBreaker,
                             !.rec = "failure", !.req = calls[1].req,
                             !.entry = calls[1].entry,
                             !.latency = now - calls[1].startTime,
                             !.caught = TRUE, !.threw = TRUE]
    /\ failRun' = failRun + 1
    /\ calls' = [calls EXCEPT ![1] = Idle]
    /\ \E ms \in StageDurations.reranking :
          request' = [nextStage(measured(request, "reranking", rerankerLatency(ms)),
                                "Reranking", "Synthesis") EXCEPT
                         !.pc = "synthesis",
                         !.reranked = degradedChunks(request.retrieved),
                         !.rerank = "threw"]
    /\ UNCHANGED now

\* synthesizeAnswer settles: 503, or the response is built and the INSERT
\* into query_evaluations is issued.
SynthesisSettle(completion) ==
    /\ request.pc = "synthesis"
    /\ \E ms \in StageDurations.synthesis :
       LET r    == synthesizeAnswer(request.reranked, completion)
           done == measured(request, "synthesis", ms)
       IN  request' =
             IF r.threw
             THEN [request EXCEPT
                      !.pc = "replied", !.completion = completion.kind,
                      !.synthesis = r,
                      !.reply = failureReply(503, "Synthesis service failed")]
             ELSE [nextStage(done, "Synthesis", "Response") EXCEPT
                      !.pc = "persisting", !.completion = completion.kind,
                      !.synthesis = r,
                      !.persisted = "pending", !.writes = @ + 1,
                      !.response =
                          [status |-> 200, error |-> "", hasRequestId |-> TRUE,
                           answer |-> r.answer, refusal |-> r.refusal,
                           sources |-> [i \in 1..Len(request.reranked) |->
                               [chunkId |-> request.reranked[i].chunkId,
                                score |-> request.reranked[i].relevanceScore]],
                           chunksRetrieved |-> Len(request.retrieved),
                           chunksReranked |-> Len(request.reranked),
                           chunksUsed |-> Len(r.sourceChunkIds),
                           latencyBudgetViolations |->
                               latencyBudgetViolations(done.latency)]]

\* (variant for C30: a route that issues the INSERT once more when it fails)
PersistSettleRetries(written) ==
    /\ request.pc = "persisting"
    /\ request' = IF written \/ request.writes >= 2
                  THEN [request EXCEPT
                           !.pc = "replied",
                           !.completed = Append(@, "Response"),
                           !.persisted = IF written THEN "written" ELSE "failed",
                           !.reply = request.response]
                  ELSE [request EXCEPT !.writes = @ + 1]

\* (variant for C23: a route that answers 500 when the INSERT fails)
PersistSettleStrict(written) ==
    /\ request.pc = "persisting"
    /\ request' = [request EXCEPT
                      !.pc = "replied",
                      !.completed = Append(@, "Response"),
                      !.persisted = IF written THEN "written" ELSE "failed",
                      !.reply = IF written THEN request.response
                                ELSE failureReply(500, "Internal server error")]

\* The INSERT settles, written or failed (logged only), and the response is
\* returned.
PersistSettle(written) ==
    /\ request.pc = "persisting"
    /\ request' = [request EXCEPT
                      !.pc = "replied",
                      !.completed = Append(@, "Response"),
                      !.persisted = IF written THEN "written" ELSE "failed",
                      !.reply = request.response]

\* What the route's callers and services may do.
TopKOptions ==
    {[given |-> FALSE, value |-> 0]} \cup {[given |-> TRUE, value |-> k] : k \in 0..MaxTopK}
Bodies ==
    {[queryLength |-> l, topK |-> t] :
        l \in {0, 1, maxQueryLength, maxQueryLength + 1}, t \in TopKOptions}
EmbeddingOutcomes ==
    {[threw |-> TRUE, dim |-> 0, ms |-> 0],
     [threw |-> FALSE, dim |-> embeddingDimension, ms |-> 0],
     [threw |-> FALSE, dim |-> embeddingDimension, ms |-> 2000],
     [threw |-> FALSE, dim |-> staleDimension, ms |-> 0]}
Completions ==
    {[kind |-> "error", text |-> <<>>], [kind |-> "nocontent", text |-> <<>>],
     [kind |-> "content", text |-> <<Space, Word("answer", TRUE), Space>>],
     [kind |-> "content",
      text |-> <<Word("sorry", TRUE), Space>> \o Text(<<"cannot", "answer">>, TRUE)],
     [kind |-> "content",
      text |-> <<Word("cannot", FALSE), Space, Space, Word("answer", FALSE)>>],
     [kind |-> "content", text |-> Text(<<"insufficient", "information">>, FALSE)]}

\* The rows of the two searches for a query: the first topK (LIMIT) of the
\* matches, the last keyword match being the first vector match.
limitRows(rows, topK) == SubSeq(rows, 1, Min(topK, Len(rows)))
QueryKeywordRows(topK) ==
    {<<>>,
     limitRows([i \in 1..MaxQueryRows |->
                   [chunk_id |-> i,
                    score |-> IF i = 1 THEN Rat(2, 1) ELSE Rat(1, 2)]], topK)}
QueryVectorRows(topK) ==
    {<<>>,
     limitRows([i \in 1..MaxQueryRows |->
                   [chunk_id |-> MaxQueryRows - 1 + i,
                    score |-> IF i = 1 THEN One ELSE Rat(1, 2)]], topK)}

\* pgvector refuses to compare vectors of different dimensions: the vector
\* query fails when the query vector has not the dimension of the column.
QueryVectorAnswers ==
    IF request.dim = embeddingDimension THEN QueryVectorRows(retrieval.limit) ELSE {}

\* ------------------------------------------------------- generateEmbedding
\* A query text is the sequence of its UTF-16 code units (charCodeAt).
\* The texts asked for: "a~", " A~", "A~ ", "b_", " B_ ", "a_".
QueryTexts ==
    {<<97, 126>>, <<32, 65, 126>>, <<65, 126, 32>>,
     <<98, 95>>, <<32, 66, 95, 32>>, <<97, 95>>}

\* String.prototype.toLowerCase on the letters A-Z
lowerCased(text) ==
    [i \in 1..Len(text) |-> IF 65 <= text[i] /\ text[i] <= 90 THEN text[i] + 32 ELSE text[i]]

\* String.prototype.trim: white space at both ends is dropped
trimmed(text) ==
    LET inside == {i \in 1..Len(text) : text[i] \notin {9, 10, 11, 12, 13, 32}}
    IN  IF inside = {} THEN <<>>
        ELSE SubSeq(text, CHOOSE i \in inside : \A j \in inside : i <= j,
                          CHOOSE i \in inside : \A j \in inside : j <= i)

\* text.toLowerCase().trim()
normalizedText(text) == trimmed(lowerCased(text))

\* ToInt32: the value wrapped into -2^31 .. 2^31 - 1
toInt32(n) ==
    IF -2147483647 <= n /\ n <= 2147483647 THEN n
    ELSE ((n + 32768 * 65536) % (65536 * 65536)) - 32768 * 65536

\* The loop of hashText over text[1..k]
RECURSIVE hashLoop(_, _)
hashLoop(text, k) ==
    IF k = 0 THEN 0
    ELSE LET hash == hashLoop(text, k - 1)
         IN  toInt32(toInt32(hash * 32) - hash + text[k])

\* Number.prototype.toString(36) of n >= 0, as its digits
RECURSIVE toString36(_)
toString36(n) ==
    IF n < 36 THEN <<n>> ELSE toString36(n \div 36) \o <<n % 36>>

hashText(text) ==
    LET hash == hashLoop(text, Len(text))
    IN  toString36(IF hash < 0 THEN -hash ELSE hash)

\* `embed:${hashText(text)}`
embedKey(text) == <<"embed:">> \o hashText(text)

\* What the embedding service may do with a text: fail, or answer with a
\* vector (two components stand for the 384).
ServiceOutcomes ==
    {[threw |-> TRUE, embedding |-> <<>>],
     [threw |-> FALSE, embedding |-> <<Rat(1, 10), Rat(9, 10)>>],
     [threw |-> FALSE, embedding |-> <<Rat(3, 10), Zero>>]}

IdleEmbed == [pc |-> "idle", text |-> <<>>, sent |-> <<>>, embedding |-> <<>>]

NoEmbedEvent ==
    [kind |-> "none", text |-> <<>>, key |-> <<>>, sent |-> <<>>, returned |-> <<>>,
     storedBy |-> <<>>]

\* redis.get(key): the entry under the key, if there is one
redisGet(key) == {e \in redis : e.key = key}

\* generateEmbedding is entered: the text is normalized and getCachedEmbedding
\* awaits redis.get.
EmbedArrive(c, text) ==
    /\ embedCalls[c].pc = "idle"
    /\ \A d \in 1..NumEmbedCalls : d < c => embedCalls[d].pc # "idle"
    /\ embedCalls' = [embedCalls EXCEPT ![c] = [IdleEmbed EXCEPT !.pc = "get", !.text = text]]
    /\ embedEv' = NoEmbedEvent
    /\ UNCHANGED redis

\* redis.get answers.  A hit: JSON.parse of the stored text is returned.  A
\* miss: callEmbeddingService(text) is awaited.
EmbedGetSettle(c) ==
    /\ embedCalls[c].pc = "get"
    /\ LET key == embedKey(normalizedText(embedCalls[c].text))
       IN  IF redisGet(key) # {}
           THEN \E cached \in redisGet(key) :
                   /\ embedEv' = [NoEmbedEvent EXCEPT !.kind = "hit",
                                     !.text = embedCalls[c].text, !.key = key,
                                     !.returned = jsonParse(cached.value).scores,
                                     !.storedBy = cached.storedBy]
                   /\ embedCalls' = [embedCalls EXCEPT ![c] = IdleEmbed]
           ELSE /\ embedCalls' = [embedCalls EXCEPT ![c].pc = "fetch",
                                                    ![c].sent = embedCalls[c].text]
                /\ embedEv' = NoEmbedEvent
    /\ UNCHANGED redis

\* The embedding service answers: its failure is rethrown; its vector is
\* handed to cacheEmbedding, which awaits redis.setex.
EmbedServiceSettle(c, out) ==
    /\ embedCalls[c].pc = "fetch"
    /\ IF out.threw
       THEN /\ embedEv' = [NoEmbedEvent EXCEPT !.kind = "threw",
                              !.text = embedCalls[c].text, !.sent = embedCalls[c].sent]
            /\ embedCalls' = [embedCalls EXCEPT ![c] = IdleEmbed]
       ELSE /\ embedCalls' = [embedCalls EXCEPT ![c].pc = "set",
                                                ![c].embedding = out.embedding]
            /\ embedEv' = NoEmbedEvent
    /\ UNCHANGED redis

\* redis.setex has stored JSON.stringify(embedding) under the key (whatever
\* was there is replaced) and the embedding is returned.  storedBy is history:
\* the normalized text the entry was stored for.
EmbedSetSettle(c) ==
    /\ embedCalls[c].pc = "set"
    /\ LET key == embedKey(normalizedText(embedCalls[c].text))
       IN  /\ redis' = {e \in redis : e.key # key} \cup
                       {[key |-> key, value |-> arrayText(embedCalls[c].embedding),
                         storedBy |-> normalizedText(embedCalls[c].text)]}
           /\ embedEv' = [NoEmbedEvent EXCEPT !.kind = "miss",
                             !.text = embedCalls[c].text, !.key = key,
                             !.sent = embedCalls[c].sent,
                             !.returned = embedCalls[c].embedding,
                             !.storedBy = normalizedText(embedCalls[c].text)]
    /\ embedCalls' = [embedCalls EXCEPT ![c] = IdleEmbed]

\* The ttl of an entry runs out: Redis drops it.
EmbedExpire ==
    /\ \E e \in redis : redis' = redis \ {e}
    /\ embedEv' = NoEmbedEvent
    /\ UNCHANGED embedCalls

\* --------------------------------------------------------------------- Spec
Init ==
    /\ circuitBreaker = NewBreaker
    /\ now = 0
    /\ calls = [c \in Calls |-> Idle]
    /\ ev = NoEvent
    /\ failRun = 0
    /\ throwRun = 0
    /\ firstServed = NoEvent
    /\ retrieval = IdleRetrieval
    /\ batchRun = IdleBatches
    /\ request = IdleRequest
    /\ redis = {}
    /\ embedCalls = [c \in 1..NumEmbedCalls |-> IdleEmbed]
    /\ embedEv = NoEmbedEvent

Next ==
    \/ \E c \in Calls : ArriveFallback(c, SpecRequests) /\ UNCHANGED <<throwRun, firstServed, queryVars>>
    \/ \E c \in Calls : ArriveScorer(c, SpecRequests) /\ UNCHANGED <<throwRun, firstServed, queryVars>>
    \/ \E c \in Calls : Complete(c, SpecShapes) /\ UNCHANGED <<throwRun, firstServed, queryVars>>
    \/ Tick(MaxTime) /\ UNCHANGED <<throwRun, firstServed, queryVars>>

Spec == Init /\ [][Next]_vars

\* --------------------------------------------------------------- SpecOutage
\* The same program over a shorter stretch of time, counting the completed
\* calls in a row, entered with the breaker CLOSED, whose scorer threw for
\* every batch.
scorerThrew(e) ==
    /\ Len(e.shapes) > 0
    /\ \A b \in 1..Len(e.shapes) : e.shapes[b] = "throws"

CompleteCounted(c) ==
    /\ Complete(c, SpecShapes)
    /\ throwRun' = IF scorerThrew(ev') /\ ev'.entry = "CLOSED"
                   THEN Min(throwRun + 1, failureThreshold)
                   ELSE 0
    /\ UNCHANGED <<firstServed, queryVars>>

NextOutage ==
    \/ \E c \in Calls : ArriveFallback(c, SpecRequests) /\ UNCHANGED <<throwRun, firstServed, queryVars>>
    \/ \E c \in Calls : ArriveScorer(c, SpecRequests) /\ UNCHANGED <<throwRun, firstServed, queryVars>>
    \/ \E c \in Calls : CompleteCounted(c)
    \/ Tick(OutageTicks * ClockStep) /\ UNCHANGED <<throwRun, firstServed, queryVars>>

SpecOutage == Init /\ [][NextOutage]_vars

\* ----------------------------------------------------------------- SpecRank
\* One rerankChunks call over every request and every scorer answer of the
\* bounded sets (up to three batches), started from the breaker states a call can find (each is
\* reached in Spec): CLOSED as constructed; OPEN with the last failure just
\* recorded; OPEN with resetTimeout elapsed, which the call turns HALF_OPEN.
TrippedBreaker ==
    [state |-> "OPEN", failureCount |-> failureThreshold, lastFailureTime |-> resetTimeout]

RankStarts ==
    {<<NewBreaker, 0>>, <<TrippedBreaker, resetTimeout>>,
     <<TrippedBreaker, resetTimeout + resetTimeout>>}

InitRank ==
    /\ \E st \in RankStarts : circuitBreaker = st[1] /\ now = st[2]
    /\ calls = [c \in Calls |-> Idle]
    /\ ev = NoEvent
    /\ failRun = circuitBreaker.failureCount
    /\ throwRun = 0
    /\ firstServed = NoEvent
    /\ retrieval = IdleRetrieval
    /\ batchRun = IdleBatches
    /\ request = IdleRequest
    /\ redis = {}
    /\ embedCalls = [c \in 1..NumEmbedCalls |-> IdleEmbed]
    /\ embedEv = NoEmbedEvent

NextRank ==
    \/ ev.kind = "none" /\ ArriveFallback(1, RankRequests) /\ UNCHANGED <<throwRun, firstServed, queryVars>>
    \/ ev.kind = "none" /\ ArriveScorer(1, ScorerRequests) /\ UNCHANGED <<throwRun, firstServed, queryVars>>
    \/ Complete(1, AllShapes) /\ UNCHANGED <<throwRun, firstServed, queryVars>>
    \/ calls[1].pc = "scoring" /\ Tick(now + MaxLatency) /\ UNCHANGED <<throwRun, firstServed, queryVars>>

SpecRank == InitRank /\ [][NextRank]_vars

\* ------------------------------------------------------------- SpecFallback
\* Calls served by the fallback while the breaker is OPEN, the first one over
\* every request and the later ones repeating it, while time passes and a
\* scorer-path call that entered before the breaker opened completes and
\* rewrites the counter (the start is reached in Spec: the fifth slow call
\* has just opened the breaker and a younger call is still being scored).
InitFallback ==
    /\ circuitBreaker = TrippedBreaker
    /\ now = resetTimeout
    /\ calls = [c \in Calls |->
                  IF c = NumCalls
                  THEN [pc |-> "scoring", startTime |-> resetTimeout - ClockStep,
                        entry |-> "CLOSED", req |-> CHOOSE rq \in SpecRequests : TRUE]
                  ELSE Idle]
    /\ ev = NoEvent
    /\ failRun = failureThreshold
    /\ throwRun = 0
    /\ firstServed = NoEvent
    /\ retrieval = IdleRetrieval
    /\ batchRun = IdleBatches
    /\ request = IdleRequest
    /\ redis = {}
    /\ embedCalls = [c \in 1..NumEmbedCalls |-> IdleEmbed]
    /\ embedEv = NoEmbedEvent

FallbackCall ==
    /\ ArriveFallback(1, IF firstServed.kind = "none" THEN RankRequests
                                                       ELSE {firstServed.req})
    /\ firstServed' = IF firstServed.kind = "none" THEN ev' ELSE firstServed
    /\ UNCHANGED <<throwRun, queryVars>>

NextFallback ==
    \/ FallbackCall
    \/ Complete(NumCalls, SpecShapes) /\ UNCHANGED <<throwRun, firstServed, queryVars>>
    \/ Tick(resetTimeout + FallbackTicks * ClockStep)
          /\ UNCHANGED <<throwRun, firstServed, queryVars>>

SpecFallback == InitFallback /\ [][NextFallback]_vars

\* ------------------------------------------------------------- SpecRetrieve
\* One hybridRetrieval call over every pair of answers of the two searches
\* (rows or failure), which settle in either order.
NextRetrieve ==
    \/ /\ \E topK \in 1..MaxRows : RetrieveStart(topK)
       /\ UNCHANGED <<rerankVars, throwRun, firstServed, batchRun, request, embedVars>>
    \/ KeywordSettle(KeywordRows(retrieval.limit)) /\ UNCHANGED <<rerankVars, throwRun, firstServed, batchRun, request, embedVars>>
    \/ VectorSettle(VectorRows(retrieval.limit)) /\ UNCHANGED <<rerankVars, throwRun, firstServed, batchRun, request, embedVars>>
    \/ RetrieveResume /\ UNCHANGED <<rerankVars, throwRun, firstServed, batchRun, request, embedVars>>

SpecRetrieve == Init /\ [][NextRetrieve]_vars

\* ---------------------------------------------------------------- SpecOrder
\* A hybridRetrieval call and a rerankChunks call (breaker CLOSED, two
\* batches) side by side, their sub-calls, the two searches and the batch
\* scorings, settling one at a time in any order.
OrderRequests == {[chunks |-> turnChunks(batchSize + 1), topK |-> defaultTopK]}
OrderShapes == {"throws", "exact", "ties"}

NextOrder ==
    \/ /\ \E topK \in 1..OrderRows : RetrieveStart(topK)
       /\ UNCHANGED <<rerankVars, throwRun, firstServed, batchRun, request, embedVars>>
    \/ KeywordSettle(KeywordRows(retrieval.limit)) /\ UNCHANGED <<rerankVars, throwRun, firstServed, batchRun, request, embedVars>>
    \/ VectorSettle(VectorRows(retrieval.limit)) /\ UNCHANGED <<rerankVars, throwRun, firstServed, batchRun, request, embedVars>>
    \/ RetrieveResume /\ UNCHANGED <<rerankVars, throwRun, firstServed, batchRun, request, embedVars>>
    \/ /\ ev.kind = "none"
       /\ ArriveBatches(1, OrderRequests)
       /\ UNCHANGED <<throwRun, firstServed, retrieval, request, embedVars>>
    \/ /\ \E b \in 1..Len(batchRun.slots), shape \in OrderShapes : BatchSettle(1, b, shape)
       /\ UNCHANGED <<rerankVars, throwRun, firstServed, retrieval, request, embedVars>>
    \/ CompleteSettled(1) /\ UNCHANGED <<throwRun, firstServed, retrieval, request, embedVars>>

SpecOrder == Init /\ [][NextOrder]_vars

\* ---------------------------------------------------------------- SpecQuery
\* One request through the route, the breaker as a call can find it.
restVars == <<throwRun, firstServed, batchRun, embedVars>>

NextQuery ==
    \/ /\ \E body \in Bodies : Receive(body)
       /\ UNCHANGED <<rerankVars, restVars, retrieval>>
    \/ /\ \E outcome \in EmbeddingOutcomes : EmbeddingSettle(outcome)
       /\ UNCHANGED <<rerankVars, restVars>>
    \/ /\ KeywordSettle(QueryKeywordRows(retrieval.limit))
       /\ UNCHANGED <<rerankVars, restVars, request>>
    \/ /\ VectorSettle(QueryVectorAnswers)
       /\ UNCHANGED <<rerankVars, restVars, request>>
    \/ RetrievalStageSettle /\ UNCHANGED restVars
    \/ RerankStageSettle(SpecShapes) /\ UNCHANGED <<restVars, retrieval>>
    \/ RerankStageThrows /\ UNCHANGED <<restVars, retrieval>>
    \/ /\ request.pc = "reranking"
       /\ Tick(now + MaxLatency)
       /\ UNCHANGED <<restVars, retrieval, request>>
    \/ /\ \E completion \in Completions : SynthesisSettle(completion)
       /\ UNCHANGED <<rerankVars, restVars, retrieval>>
    \/ /\ \E written \in BOOLEAN : PersistSettle(written)
       /\ UNCHANGED <<rerankVars, restVars, retrieval>>

SpecQuery == InitRank /\ [][NextQuery]_vars

\* ---------------------------------------------------------------- SpecEmbed
\* generateEmbedding invocations over the query texts, up to NumEmbedCalls of
\* them suspended at a time, with every answer of the embedding service.
NextEmbed ==
    \/ \E c \in 1..NumEmbedCalls, text \in QueryTexts : EmbedArrive(c, text) /\ UNCHANGED <<rerankVars, throwRun, firstServed, retrieval, batchRun, request>>
    \/ \E c \in 1..NumEmbedCalls : EmbedGetSettle(c) /\ UNCHANGED <<rerankVars, throwRun, firstServed, retrieval, batchRun, request>>
    \/ \E c \in 1..NumEmbedCalls, out \in ServiceOutcomes : EmbedServiceSettle(c, out) /\ UNCHANGED <<rerankVars, throwRun, firstServed, retrieval, batchRun, request>>
    \/ \E c \in 1..NumEmbedCalls : EmbedSetSettle(c) /\ UNCHANGED <<rerankVars, throwRun, firstServed, retrieval, batchRun, request>>
    \/ EmbedExpire /\ UNCHANGED <<rerankVars, throwRun, firstServed, retrieval, batchRun, request>>

SpecEmbed == Init /\ [][NextEmbed]_vars

\* -------------------------------------------------------------- SpecRecover
\* The breaker after the scorer has recovered: every scorer-path call is
\* answered well-formed within latencyLimit, the clock keeps advancing and
\* calls keep arriving.  The starts are the unhealthy states the program
\* reaches: OPEN with the counter at the threshold; OPEN with the counter
\* zeroed by a late success; HALF_OPEN left by a failed trial call; each with
\* or without a call still being scored (one that entered before the breaker
\* opened, or a second trial call).
RecoverStarts ==
    {[cb |-> TrippedBreaker, now |-> resetTimeout,
      entry |-> "CLOSED", startTime |-> resetTimeout - ClockStep],
     [cb |-> [TrippedBreaker EXCEPT !.failureCount = 0], now |-> resetTimeout,
      entry |-> "CLOSED", startTime |-> resetTimeout - ClockStep],
     [cb |-> [state |-> "HALF_OPEN", failureCount |-> 1,
              lastFailureTime |-> resetTimeout + resetTimeout + MaxLatency],
      now |-> resetTimeout + resetTimeout + MaxLatency,
      entry |-> "HALF_OPEN",
      startTime |-> resetTimeout + resetTimeout + MaxLatency - ClockStep]}

InitRecover ==
    /\ \E st \in RecoverStarts : \E inFlight \in BOOLEAN :
          /\ circuitBreaker = st.cb
          /\ now = st.now
          /\ calls = [c \in Calls |->
                        IF inFlight /\ c = NumCalls
                        THEN [pc |-> "scoring", startTime |-> st.startTime,
                              entry |-> st.entry,
                              req |-> CHOOSE rq \in SpecRequests : TRUE]
                        ELSE Idle]
    /\ ev = NoEvent
    /\ failRun = circuitBreaker.failureCount
    /\ throwRun = 0
    /\ firstServed = NoEvent
    /\ retrieval = IdleRetrieval
    /\ batchRun = IdleBatches
    /\ request = IdleRequest
    /\ redis = {}
    /\ embedCalls = [c \in 1..NumEmbedCalls |-> IdleEmbed]
    /\ embedEv = NoEmbedEvent

RecoverArrives == \E c \in Calls : ArriveScorer(c, SpecRequests) /\ UNCHANGED <<throwRun, firstServed, queryVars>>

\* Every answer of the scorer is well-formed.
RecoverCompletes == \E c \in Calls : Complete(c, {"exact"}) /\ UNCHANGED <<throwRun, firstServed, queryVars>>

\* The scorer answers every call within latencyLimit: the clock does not pass
\* the limit of a call that is being scored.
RecoverTicks ==
    /\ \A c \in Calls :
          calls[c].pc = "scoring" => now + ClockStep - calls[c].startTime <= latencyLimit
    /\ Tick(MaxTime)
    /\ UNCHANGED <<throwRun, firstServed, queryVars>>

NextRecover ==
    \/ \E c \in Calls : ArriveFallback(c, SpecRequests) /\ UNCHANGED <<throwRun, firstServed, queryVars>>
    \/ RecoverArrives
    \/ RecoverCompletes
    \/ RecoverTicks

\* The await of a call being scored resumes: the call leaves its slot.  Within
\* NextRecover these are the steps of RecoverCompletes, and one is possible
\* exactly when a call is being scored.
RecoverResumes ==
    \E c \in Calls : calls[c].pc = "scoring" /\ calls' = [calls EXCEPT ![c] = Idle]

\* Calls keep arriving, every call being scored is answered, time advances.
SpecRecover ==
    /\ InitRecover
    /\ [][NextRecover]_vars
    /\ WF_vars(RecoverArrives)
    /\ WF_calls(RecoverResumes)
    /\ WF_vars(RecoverTicks)

\* ------------------------------------------------------------------- claims
Arrived == ev.kind \in {"start", "fallback"}
RecordedFailure == ev.kind = "finish" /\ ev.rec = "failure"
RecordedSuccess == ev.kind = "finish" /\ ev.rec = "success"

\* C1: from CLOSED the breaker opens exactly on the failureThreshold-th
\* failure recorded in a row: a failure recorded in CLOSED leaves it CLOSED
\* while fewer than 5 have been recorded since the last success, and OPEN
\* once there are 5; CLOSED never holds 5 failures in a row.
C1_OpensOnFifthFailure ==
    /\ circuitBreaker.state = "CLOSED" => failRun < failureThreshold
    /\ (RecordedFailure /\ ev.pre.state = "CLOSED") =>
          circuitBreaker.state =
              (IF failRun < failureThreshold THEN "CLOSED" ELSE "OPEN")

C1_Witness ==
    /\ RecordedFailure
    /\ ev.pre.state = "CLOSED"
    /\ failRun = failureThreshold
    /\ circuitBreaker.state = "OPEN"

\* C2 (as claimed): once the scorer has thrown on failureThreshold calls in a
\* row made with the breaker CLOSED, the breaker is OPEN, and a call arriving
\* before resetTimeout has elapsed is served by the fallback.
C2_ScorerThrowsOpenCircuit ==
    throwRun >= failureThreshold =>
        /\ ev.kind = "finish" => circuitBreaker.state = "OPEN"
        /\ (Arrived /\ now - circuitBreaker.lastFailureTime < resetTimeout) =>
               ev.kind = "fallback"

\* C3 (as claimed): a failure recorded while HALF_OPEN re-opens the breaker
\* and restarts the failure clock.
C3_HalfOpenFailureReopens ==
    (RecordedFailure /\ ev.pre.state = "HALF_OPEN") =>
        /\ circuitBreaker.state = "OPEN"
        /\ circuitBreaker.lastFailureTime = now

\* C4 (as claimed): while a trial call that entered in HALF_OPEN is still in
\* flight, another invocation arriving at the HALF_OPEN breaker is served by
\* the fallback.
C4_SingleTrialCall ==
    \A c \in Calls :
        (/\ calls[c].pc = "scoring"
         /\ calls[c].entry = "HALF_OPEN"
         /\ Arrived
         /\ ev.call # c
         /\ ev.pre.state = "HALF_OPEN") => ev.kind = "fallback"

\* C5: an invocation arriving at an OPEN breaker less than resetTimeout after
\* the last recorded failure is served by the fallback and leaves the breaker
\* as it was; one arriving at or after resetTimeout moves it to HALF_OPEN and
\* takes the scorer path.
C5_OpenUntilResetTimeout ==
    (Arrived /\ ev.pre.state = "OPEN") =>
        IF now - ev.pre.lastFailureTime < resetTimeout
        THEN ev.kind = "fallback" /\ circuitBreaker = ev.pre
        ELSE ev.kind = "start" /\ circuitBreaker.state = "HALF_OPEN"

C5_Witness ==
    /\ ev.kind = "start"
    /\ ev.pre.state = "OPEN"
    /\ now - ev.pre.lastFailureTime = resetTimeout
    /\ circuitBreaker.state = "HALF_OPEN"

\* C6: a scorer-path call that completes in HALF_OPEN without throwing and
\* within the latency limit closes the breaker and zeroes the counter.
C6_HalfOpenSuccessCloses ==
    (/\ ev.kind = "finish"
     /\ ev.pre.state = "HALF_OPEN"
     /\ ~ev.caught
     /\ ev.latency <= latencyLimit) =>
        /\ circuitBreaker.state = "CLOSED"
        /\ circuitBreaker.failureCount = 0

C6_Witness ==
    /\ RecordedSuccess
    /\ ev.pre.state = "HALF_OPEN"
    /\ ev.latency = latencyLimit
    /\ circuitBreaker.state = "CLOSED"

\* ------------------------------------------------------ claims on the ranking
Returned == ev.kind \in {"fallback", "finish"}
InUnit(x) == ~RLess(x, Zero) /\ ~RLess(One, x)
evBatches == batchesOf(ev.req.chunks)
evResp(b) == respOf(ev.shapes[b], Len(evBatches[b]))
\* The group and the index in its group of the candidate with identifier id
\* (identifiers are the positions in the candidate list).
groupOf(id) == ((id - 1) \div batchSize) + 1
indexInGroup(id) == (id - 1) % batchSize

\* C7: whatever the scorer does (throws, answers malformed text, is slow) and
\* whatever the breaker mode, rerankChunks returns a ranked list of at most
\* topK of the candidates and does not throw.
C7_NeverThrows ==
    Returned =>
        /\ ~ev.threw
        /\ Len(ev.ranked) <= Len(ev.req.chunks)
        /\ \A i \in 1..Len(ev.ranked) :
              \E j \in 1..Len(ev.req.chunks) :
                  ev.ranked[i].chunkId = ev.req.chunks[j].chunkId

C7_Witness ==
    /\ ev.kind = "finish"
    /\ ev.entry = "HALF_OPEN"
    /\ ev.shapes = <<"throws", "badjson">>
    /\ ev.latency > latencyLimit
    /\ ~ev.threw
    /\ Len(ev.ranked) > 0

NoScoreArray(resp) ==
    \/ resp.throws
    \/ ~scoresMatch(resp.text).found
    \/ jsonParse(scoresMatch(resp.text).m).threw
parsedScores(resp) == jsonParse(scoresMatch(resp.text).m).scores

evScored ==
    IF ev.kind = "fallback"
    THEN fallbackRerank(ev.req.chunks, Len(ev.req.chunks))
    ELSE rerankScored(ev.req.chunks, Len(ev.req.chunks),
                      respsOf(ev.shapes, evBatches)).ranked

Largest(S) == CHOOSE x \in S : \A y \in S : ~RLess(x, y)
\* The largest raw score of a kind over the candidates, 1 when it is 0.
evMax(field) ==
    LET m == Largest({ev.req.chunks[j][field] : j \in 1..Len(ev.req.chunks)})
    IN  IF REq(m, Zero) THEN One ELSE m

keywordResults == retrieval.slots[1].value
vectorResults == retrieval.slots[2].value
idsOf(results) == {results[i].chunkId : i \in 1..Len(results)}
entryOf(results, id) == results[CHOOSE i \in 1..Len(results) : results[i].chunkId = id]
timesIn(results, id) == Cardinality({i \in 1..Len(results) : results[i].chunkId = id})

\* What the merge has to hold for the passage id found by both searches.
hybridEntry(id) ==
    [chunkId |-> id,
     score |-> MathMax(entryOf(keywordResults, id).score, entryOf(vectorResults, id).score),
     vectorScore |-> entryOf(vectorResults, id).score,
     keywordScore |-> entryOf(keywordResults, id).score,
     source |-> "hybrid"]

\* C13: a passage found by both searches is once in the merged list, tagged
\* hybrid, with the keyword score the keyword search gave it, the vector
\* score the vector search gave it and the larger of the two as merge score;
\* the returned list, cut to the limit, holds it at most once and as merged.
C13_HybridKeepsBothScores ==
    retrieval.pc = "returned" =>
        \A id \in idsOf(keywordResults) \cap idsOf(vectorResults) :
            /\ timesIn(retrieval.merged, id) = 1
            /\ entryOf(retrieval.merged, id) = hybridEntry(id)
            /\ timesIn(retrieval.out, id) <= 1
            /\ timesIn(retrieval.out, id) = 1 => entryOf(retrieval.out, id) = hybridEntry(id)

C13_Witness ==
    /\ retrieval.pc = "returned"
    /\ \E id \in idsOf(keywordResults) \cap idsOf(vectorResults) :
          /\ REq(entryOf(keywordResults, id).score, Rat(2, 1))
          /\ REq(entryOf(vectorResults, id).score, Rat(1, 2))
          /\ timesIn(retrieval.out, id) = 1
          /\ entryOf(retrieval.out, id).source = "hybrid"
          /\ REq(entryOf(retrieval.out, id).score, Rat(2, 1))
          /\ REq(entryOf(retrieval.out, id).vectorScore, Rat(1, 2))
    /\ \E id \in idsOf(keywordResults) \cap idsOf(vectorResults) :
          /\ REq(entryOf(keywordResults, id).score, Rat(1, 2))
          /\ REq(entryOf(vectorResults, id).score, One)
          /\ timesIn(retrieval.out, id) = 1
          /\ REq(entryOf(retrieval.out, id).score, One)

\* C14: a passage found by one search only is once in the merged list with
\* that search's score as merge score and as the score of its kind, the score
\* of the other kind 0 and the tag of that search.
C14_SingleSourceKeepsScore ==
    retrieval.pc = "returned" =>
        /\ \A id \in idsOf(keywordResults) \ idsOf(vectorResults) :
              /\ timesIn(retrieval.merged, id) = 1
              /\ entryOf(retrieval.merged, id) =
                    [chunkId |-> id, score |-> entryOf(keywordResults, id).score,
                     vectorScore |-> Zero,
                     keywordScore |-> entryOf(keywordResults, id).score,
                     source |-> "keyword"]
        /\ \A id \in idsOf(vectorResults) \ idsOf(keywordResults) :
              /\ timesIn(retrieval.merged, id) = 1
              /\ entryOf(retrieval.merged, id) =
                    [chunkId |-> id, score |-> entryOf(vectorResults, id).score,
                     vectorScore |-> entryOf(vectorResults, id).score,
                     keywordScore |-> Zero,
                     source |-> "vector"]

C14_Witness ==
    /\ retrieval.pc = "returned"
    /\ \E id \in idsOf(keywordResults) \ idsOf(vectorResults) :
          /\ timesIn(retrieval.out, id) = 1
          /\ entryOf(retrieval.out, id).source = "keyword"
          /\ REq(entryOf(retrieval.out, id).keywordScore, Rat(2, 1))
    /\ \E id \in idsOf(vectorResults) \ idsOf(keywordResults) :
          /\ timesIn(retrieval.out, id) = 1
          /\ entryOf(retrieval.out, id).source = "vector"
          /\ REq(entryOf(retrieval.out, id).vectorScore, One)
    /\ idsOf(keywordResults) \cap idsOf(vectorResults) # {}

\* C15: the returned list is in descending order of merge score, holds no
\* identifier twice and only identifiers a search answered with, and its
\* length is the smaller of the limit and the number of distinct
\* identifiers the two searches answered with.
C15_SortedDistinctLimited ==
    retrieval.pc = "returned" =>
        LET out == retrieval.out
            all == idsOf(keywordResults) \cup idsOf(vectorResults)
        IN  /\ \A i \in 1..(Len(out) - 1) : ~RLess(out[i].score, out[i + 1].score)
            /\ \A i, j \in 1..Len(out) : i # j => out[i].chunkId # out[j].chunkId
            /\ idsOf(out) \subseteq all
            /\ Len(out) = Min(retrieval.limit, Cardinality(all))

C15_Witness ==
    /\ retrieval.pc = "returned"
    /\ retrieval.limit = 2
    /\ Cardinality(idsOf(keywordResults) \cup idsOf(vectorResults)) = 3
    /\ Len(retrieval.out) = 2
    /\ retrieval.out[1].source = "vector"
    /\ retrieval.out[2].source = "keyword"
    /\ RLess(retrieval.out[2].score, retrieval.out[1].score)
    /\ \E id \in idsOf(keywordResults) \cap idsOf(vectorResults) :
          timesIn(retrieval.out, id) = 0

\* C16: once a search has failed the call does not return a list; a call
\* that returns has had both searches answer, and a call resumed by a failure
\* throws without a list.
C16_NoPartialResult ==
    /\ (\E i \in 1..Len(retrieval.slots) : retrieval.slots[i].st = "rejected") =>
           retrieval.pc # "returned"
    /\ retrieval.pc = "returned" =>
           \A i \in 1..Len(retrieval.slots) : retrieval.slots[i].st = "fulfilled"
    /\ retrieval.pc = "threw" => retrieval.out = <<>> /\ retrieval.merged = <<>>

C16_Witness ==
    /\ retrieval.pc = "threw"
    /\ retrieval.slots[1].st = "fulfilled"
    /\ Len(keywordResults) = 2
    /\ retrieval.slots[2].st = "rejected"
    /\ retrieval.order = <<1, 2>>

\* C18: the list hybridRetrieval returns is the one fixed by what the keyword
\* search and the vector search answered, and the list rerankChunks returns
\* is the one fixed by what the scorer answered for the first, second, ...
\* batch, in whatever order the searches and the batch scorings settled.
C18_SettleOrderIrrelevant ==
    /\ retrieval.pc = "returned" =>
           retrieval.out =
               hybridRanked([threw |-> FALSE,
                             values |-> <<keywordResults, vectorResults>>],
                            retrieval.limit).ranked
    /\ ev.kind = "finish" =>
           ev.ranked = rerankScored(ev.req.chunks, ev.req.topK,
                                    respsOf(ev.shapes, evBatches)).ranked

C18_Witness ==
    /\ retrieval.pc = "returned"
    /\ retrieval.order = <<2, 1>>
    /\ Len(retrieval.out) = 1
    /\ retrieval.out[1].source = "hybrid"
    /\ RLess(retrieval.out[1].vectorScore, retrieval.out[1].keywordScore)
    /\ ev.kind = "finish"
    /\ batchRun.order = <<2, 1>>
    /\ ev.shapes = <<"ties", "ties">>
    /\ Len(ev.ranked) = 6
    /\ ev.ranked[1].chunkId = 1
    /\ ev.ranked[6].chunkId = 6

\* ------------------------------------------------------ claims on the route
Replied == request.pc = "replied"
isPrefix(a, b) == Len(a) <= Len(b) /\ \A i \in 1..Len(a) : a[i] = b[i]
\* The query vector has not the dimension of the passage embeddings.
DimensionMismatch == request.dim # 0 /\ request.dim # embeddingDimension

\* C17 (as claimed): a request whose query vector has not the dimension of
\* the passage embeddings is answered as a bad request (400), not as
\* service unavailable.
C17_DimensionMismatchIsBadRequest ==
    (Replied /\ DimensionMismatch) => request.reply.status = 400

\* C19: the stages are entered in the order Embedding, Retrieval, Reranking,
\* Synthesis, Response, one at a time, a stage only once every stage before
\* it is over; a request answered with success has been through all five,
\* each once.
C19_StagesInOrder ==
    /\ isPrefix(request.started, StageOrder)
    /\ isPrefix(request.completed, request.started)
    /\ Len(request.started) <= Len(request.completed) + 1
    /\ request.reply.status = 200 =>
           request.started = StageOrder /\ request.completed = StageOrder

C19_Witness ==
    /\ request.reply.status = 200
    /\ request.completed = StageOrder
    /\ request.retrieved = <<>>
    /\ request.persisted = "written"

\* The stage that failed, if one did: generateEmbedding threw, a search
\* failed, or the generator call failed (no completion, or a completion
\* without content).
embeddingFailed == Replied /\ request.started = <<"Embedding">>
retrievalFailed ==
    \E i \in 1..Len(retrieval.slots) : retrieval.slots[i].st = "rejected"
synthesisFailed == request.completion \in {"error", "nocontent"}

\* C20 (as claimed): a request whose embedding, retrieval or synthesis stage
\* failed is answered with service unavailable (503) and without an answer,
\* and no stage after the failed one is entered.
C20_StageFailureAborts ==
    /\ (Replied /\ (embeddingFailed \/ retrievalFailed \/ synthesisFailed)) =>
           /\ request.reply.status = 503
           /\ request.reply.answer = <<>>
           /\ request.persisted = "none"
    /\ retrievalFailed => Len(request.started) <= 2
    /\ synthesisFailed => Len(request.started) <= 4

\* ------------------------------------------------ claims on the degraded run
idsIn(chunks) == [i \in 1..Len(chunks) |-> chunks[i].chunkId]
\* The passages written into the prompt, in their order.
passagesIn(context) == [i \in 1..Len(context) |-> context[i].content]

\* C21: when the call of rerankChunks throws, the request goes on: the
\* ranking handed to Synthesis is the first N retrieved chunks in their
\* order, N the reranker's top-K (6), with strictly descending scores, and
\* unless the generator call fails the reply is a success built on them.
C21_RerankFailureDegrades ==
    request.rerank = "threw" =>
        /\ Len(request.started) >= 4
        /\ idsIn(request.reranked) =
               idsIn(SubSeq(request.retrieved, 1,
                            Min(defaultTopK, Len(request.retrieved))))
        /\ \A i, j \in 1..Len(request.reranked) :
               i < j => RLess(request.reranked[j].relevanceScore,
                              request.reranked[i].relevanceScore)
        /\ request.completion # "none" =>
               passagesIn(request.synthesis.context) = idsIn(request.reranked)
        /\ (Replied /\ request.completion # "error") =>
               /\ request.reply.status = 200
               /\ idsIn(request.reply.sources) = idsIn(request.reranked)

C21_Witness ==
    /\ request.rerank = "threw"
    /\ Len(request.retrieved) = defaultTopK + 1
    /\ Len(request.reranked) = defaultTopK
    /\ request.reply.status = 200
    /\ request.reply.chunksUsed = defaultTopK

\* ---------------------------------------------------- claims on the budgets
listed(name) ==
    \E k \in 1..Len(request.reply.latencyBudgetViolations) :
        request.reply.latencyBudgetViolations[k] = name
overBudget ==
    \/ request.latency.retrieval > 200
    \/ request.latency.reranking > 500
    \/ request.latency.synthesis > 3000
    \/ request.latency.total > 5000

\* C22: a stage that took longer than its budget (retrieval 200 ms,
\* reranking 500 ms, synthesis 3000 ms, total 5000 ms) does not abort the
\* request (only a failed generator call still can), and the violation list
\* of a successful reply names a stage exactly when it was over its budget,
\* each stage at most once.
C22_BudgetsDoNotAbort ==
    /\ (Replied /\ overBudget) =>
           request.reply.status = 200 \/ request.completion = "error"
    /\ request.reply.status = 200 =>
           /\ listed("retrieval") <=> request.latency.retrieval > 200
           /\ listed("reranking") <=> request.latency.reranking > 500
           /\ listed("synthesis") <=> request.latency.synthesis > 3000
           /\ listed("total") <=> request.latency.total > 5000
           /\ \A i, j \in 1..Len(request.reply.latencyBudgetViolations) :
                  request.reply.latencyBudgetViolations[i] =
                      request.reply.latencyBudgetViolations[j] => i = j
           /\ \A i \in 1..Len(request.reply.latencyBudgetViolations) :
                  request.reply.latencyBudgetViolations[i] \in
                      {"retrieval", "reranking", "synthesis", "total"}

C22_Witness ==
    /\ request.reply.status = 200
    /\ request.latency.synthesis = 3200
    /\ request.latency.retrieval = 200
    /\ request.reply.latencyBudgetViolations = <<"synthesis">>

\* ------------------------------------------- claims on the evaluation record
\* C23: a failed write of the evaluation record does not reach the caller:
\* the reply is the successful response built before the write, as it is
\* when the write succeeds.
C23_PersistenceFailureSwallowed ==
    request.persisted \in {"written", "failed"} =>
        /\ Replied
        /\ request.reply = request.response
        /\ request.reply.status = 200
        /\ request.reply.answer = request.synthesis.answer

C23_Witness ==
    /\ request.persisted = "failed"
    /\ request.reply.status = 200
    /\ request.reply.answer # <<>>
    /\ request.reply.chunksUsed > 0

\* C24 (as claimed): the response does not wait for the write of the
\* evaluation record: there is no state in which the response is built, the
\* write is pending and the reply has not been sent.
C24_ResponseNotDelayed ==
    request.persisted = "pending" => request.reply.status = 200

\* C25 (as claimed): a failure reply is a bad request (400) or a service
\* unavailable (503), and carries the request identifier.
C25_FailureHasCategoryAndId ==
    (Replied /\ request.reply.status # 200) =>
        /\ request.reply.status \in {400, 503}
        /\ request.reply.hasRequestId

\* --------------------------------------------- claims on the open circuit
\* C26: a request whose call of rerankChunks finds the circuit OPEN (and is
\* served by fallbackRerank) is not answered with an error on that account
\* (only a failed generator call still can abort it), and the reply's
\* chunksReranked is the smaller of chunksRetrieved and the top-K (6).
C26_OpenCircuitStillAnswers ==
    request.rerank = "fallback" =>
        /\ Len(request.reranked) = Min(Len(request.retrieved), defaultTopK)
        /\ Len(request.started) >= 4
        /\ (Replied /\ request.completion # "error") =>
               /\ request.reply.status = 200
               /\ request.reply.chunksRetrieved = Len(request.retrieved)
               /\ request.reply.chunksReranked =
                      Min(request.reply.chunksRetrieved, defaultTopK)

C26_Witness ==
    /\ request.rerank = "fallback"
    /\ ev.kind = "fallback"
    /\ ev.pre.state = "OPEN"
    /\ request.reply.status = 200
    /\ request.reply.chunksRetrieved = defaultTopK + 1
    /\ request.reply.chunksReranked = defaultTopK

\* -------------------------------------------------- claims on the synthesis
\* synthesizeAnswer has returned a result.
Synthesized == request.completion \notin {"none", "error"}

\* C27: the sourceChunkIds of a synthesis result are the identifiers of the
\* passages written into the prompt, all of them and in their (rank) order,
\* whatever the generated text and whether it is a refusal or not.
C27_SourcesAreTheContext ==
    Synthesized =>
        /\ request.synthesis.sourceChunkIds = passagesIn(request.synthesis.context)
        /\ request.synthesis.sourceChunkIds = idsIn(request.reranked)

C27_Witness ==
    /\ Synthesized
    /\ request.synthesis.refusal
    /\ Len(request.synthesis.sourceChunkIds) = defaultTopK
    /\ request.synthesis.sourceChunkIds[1] # 1

\* The words of a refusal phrase, whatever their capitalisation, one blank
\* between two of them, somewhere in the text.
spells(text, i, words) ==
    /\ i + 2 * Len(words) - 2 <= Len(text)
    /\ \A k \in 1..Len(words) : text[i + 2 * k - 2].w = words[k]
    /\ \A k \in 1..(Len(words) - 1) : text[i + 2 * k - 1] = Space
hasRefusalPhrase(text) ==
    \E words \in {<<"don't", "have", "enough", "information">>,
                  <<"insufficient", "information">>, <<"cannot", "answer">>,
                  <<"not", "enough", "context">>, <<"unable", "to", "answer">>} :
        \E i \in 1..Len(text) : spells(text, i, words)

\* C28: the refusal marker of a synthesis result is set exactly when the
\* generated text holds one of the five refusal phrases, capitalised or not,
\* and the answer is the generated text, refusal or not.
C28_RefusalIsMetadata ==
    Synthesized =>
        /\ request.synthesis.refusal <=> hasRefusalPhrase(request.synthesis.generated)
        /\ request.synthesis.answer = request.synthesis.generated
        /\ request.response.refusal = request.synthesis.refusal
        /\ request.response.answer = request.synthesis.generated

C28_Witness ==
    /\ Synthesized
    /\ request.synthesis.refusal
    /\ \E i \in 1..Len(request.synthesis.answer) : request.synthesis.answer[i].caps
    /\ Len(request.synthesis.answer) = 5
    /\ request.reply.refusal

\* C29 (as claimed): a synthesis on an empty context is flagged as a refusal.
C29_EmptyContextRefuses ==
    (Synthesized /\ request.synthesis.context = <<>>) => request.synthesis.refusal

\* C30: a request issues the write of an evaluation record exactly when it
\* enters the Response stage, once, and then synthesizeAnswer has returned;
\* a request answered with 503 (or 400) has issued none.
C30_OneRecordPerCompletedRun ==
    /\ request.writes <= 1
    /\ request.writes = 1 <=> Len(request.started) = Len(StageOrder)
    /\ request.writes = 1 =>
           /\ Synthesized
           /\ Len(request.completed) >= 4
           /\ request.completed[4] = "Synthesis"
    /\ request.writes = 0 <=> request.persisted = "none"
    /\ (Replied /\ request.reply.status # 200) => request.writes = 0
    /\ request.reply.status = 200 => request.writes = 1

C30_Witness ==
    /\ request.rerank = "threw"
    /\ request.reply.status = 200
    /\ request.writes = 1
    /\ request.persisted = "written"

\* ------------------------------------------- claims on the shared breaker
\* C31 (as claimed): between a call's shouldUseFallback and its
\* recordSuccess/recordFailure no other call updates the breaker: a call
\* records its outcome on the mode it found (or set) on entry.
C31_CheckAndRecordAtomic ==
    ev.kind = "finish" => ev.pre.state = ev.entry

\* C32: a scorer-path call that ends with a latency above 5000 ms records one
\* failure (counter plus one, timestamp now); one that ends within 5000 ms
\* without an error records one success (counter 0).
C32_LatencyDecidesOutcome ==
    ev.kind = "finish" =>
        /\ ev.latency > 5000 =>
               /\ ev.rec = "failure"
               /\ circuitBreaker.failureCount = ev.pre.failureCount + 1
               /\ circuitBreaker.lastFailureTime = now
        /\ (ev.latency <= 5000 /\ ~ev.caught) =>
               /\ ev.rec = "success"
               /\ circuitBreaker.failureCount = 0
               /\ circuitBreaker.lastFailureTime = ev.pre.lastFailureTime

C32_Witness ==
    /\ ev.kind = "finish"
    /\ ev.latency = 2 * 5000
    /\ ev.rec = "failure"
    /\ ev.pre.failureCount = 2
    /\ circuitBreaker.failureCount = 3

\* C33: a success recorded in any mode zeroes the failure counter, so the
\* counter is the number of failures recorded since the last success, and a
\* CLOSED breaker has fewer than failureThreshold of them however many
\* failures were recorded before that success.
C33_SuccessZeroesCounter ==
    /\ RecordedSuccess => circuitBreaker.failureCount = 0
    /\ circuitBreaker.failureCount = failRun
    /\ (RecordedFailure /\ ev.pre.state = "CLOSED" /\ failRun <= 4) =>
           circuitBreaker.state = "CLOSED"

C33_Witness ==
    /\ RecordedSuccess
    /\ ev.pre.state = "OPEN"
    /\ ev.pre.failureCount = failureThreshold
    /\ circuitBreaker.failureCount = 0

\* ------------------------------------------------- claims on the batching
\* C34: a scorer-path call over n candidates makes ceil(n/5) scorer calls,
\* one per group; the groups are consecutive runs of at most 5 candidates
\* that together are the candidate list, and the scored list holds every
\* candidate exactly once.
C34_OneScorerCallPerGroup ==
    ev.kind = "finish" =>
        LET n      == Len(ev.req.chunks)
            groups == evBatches
            full   == evScored
        IN  /\ Len(ev.shapes) = (n + 4) \div 5
            /\ Len(groups) = Len(ev.shapes)
            /\ \A b \in 1..Len(groups) :
                  /\ Len(groups[b]) >= 1
                  /\ Len(groups[b]) <= 5
                  /\ \A i \in 1..Len(groups[b]) :
                        groups[b][i] = ev.req.chunks[5 * (b - 1) + i]
            /\ \A k \in 1..n : \E b \in 1..Len(groups) :
                  \E i \in 1..Len(groups[b]) : 5 * (b - 1) + i = k
            /\ Len(full) = n
            /\ \A k \in 1..n :
                  Cardinality({i \in 1..Len(full) :
                                  full[i].chunkId = ev.req.chunks[k].chunkId}) = 1

C34_Witness ==
    /\ ev.kind = "finish"
    /\ Len(ev.req.chunks) = 11
    /\ Len(ev.shapes) = 3
    /\ Len(evBatches[3]) = 1
    /\ ev.shapes[2] = "throws"

\* ---------------------------------------------- claims on the breaker modes
\* C35: in one step the mode stays as it is or goes CLOSED to OPEN, OPEN to
\* HALF_OPEN, HALF_OPEN to CLOSED or HALF_OPEN to OPEN.
C35_ModeTransitions ==
    [][\/ circuitBreaker'.state = circuitBreaker.state
       \/ <<circuitBreaker.state, circuitBreaker'.state>> \in
              {<<"CLOSED", "OPEN">>, <<"OPEN", "HALF_OPEN">>,
               <<"HALF_OPEN", "CLOSED">>, <<"HALF_OPEN", "OPEN">>}]_vars

C35_Witness ==
    /\ RecordedSuccess
    /\ ev.entry = "CLOSED"
    /\ ev.pre.state = "OPEN"
    /\ circuitBreaker.state = "OPEN"

\* C36 (as claimed): the breaker is OPEN only with a failure counter of at
\* least failureThreshold, and CLOSED only with a counter below it.
C36_ModeAgreesWithCounter ==
    /\ circuitBreaker.state = "OPEN" => circuitBreaker.failureCount >= 5
    /\ circuitBreaker.state = "CLOSED" => circuitBreaker.failureCount < 5

\* C37: a call served by the fallback found the breaker OPEN less than
\* resetTimeout after the last failure, and leaves mode, counter and
\* timestamp as they were: no success and no failure is recorded.
C37_FallbackLeavesBreaker ==
    ev.kind = "fallback" =>
        /\ ev.pre.state = "OPEN"
        /\ now - ev.pre.lastFailureTime < 30000
        /\ circuitBreaker.state = ev.pre.state
        /\ circuitBreaker.failureCount = ev.pre.failureCount
        /\ circuitBreaker.lastFailureTime = ev.pre.lastFailureTime
        /\ ev.rec = "none"
        /\ failRun = ev.pre.failureCount

C37_Witness ==
    /\ ev.kind = "fallback"
    /\ circuitBreaker.state = "OPEN"
    /\ circuitBreaker.failureCount = failureThreshold
    /\ now - circuitBreaker.lastFailureTime = resetTimeout - ClockStep

\* C38: a scorer-path call records one outcome, whatever the number of its
\* batches and of those whose scorer failed: the counter afterwards is 0 (a
\* success) or one more than before (a failure).
C38_OneOutcomePerCall ==
    ev.kind = "finish" =>
        /\ ev.rec \in {"success", "failure"}
        /\ ev.rec = "success" => circuitBreaker = recordSuccess(ev.pre)
        /\ ev.rec = "failure" =>
               /\ circuitBreaker.failureCount = ev.pre.failureCount + 1
               /\ circuitBreaker.lastFailureTime = now
        /\ circuitBreaker.failureCount <= ev.pre.failureCount + 1

C38_Witness ==
    /\ ev.kind = "finish"
    /\ ev.shapes = <<"throws", "throws", "badjson">>
    /\ ev.rec = "failure"
    /\ ev.pre.failureCount = failureThreshold
    /\ circuitBreaker.failureCount = failureThreshold + 1
\* C39: once every scorer-path call is answered within the latency limit,
\* the clock keeps advancing and calls keep arriving, a breaker that is OPEN
\* or HALF_OPEN is eventually CLOSED and remains CLOSED for ever.
C39_Recovers == <>[](circuitBreaker.state = "CLOSED")

\* The breaker opened, had its counter zeroed by a late success, waited out
\* resetTimeout, and the trial call's success has closed it.
C39_Witness ==
    /\ ev.kind = "finish"
    /\ ev.rec = "success"
    /\ ev.entry = "HALF_OPEN"
    /\ ev.pre.state = "HALF_OPEN"
    /\ ev.pre.failureCount = 0
    /\ ev.pre.lastFailureTime = resetTimeout
    /\ circuitBreaker.state = "CLOSED"

\* C40: generateEmbedding looks the normalized (lower-cased, trimmed) text up
\* in the cache: a hit returns the vector that was stored for that normalized
\* text.
C40_HitIsForNormalizedText ==
    embedEv.kind = "hit" => embedEv.storedBy = normalizedText(embedEv.text)

\* (C40, the rest of it) The key is that of the normalized text;
\* a hit returns what is stored under the key and has asked the service
\* nothing; a miss has given the service the text as it came, returns what
\* the service answered, and leaves it stored under the key.
C40_HitsAndMisses ==
    /\ embedEv.kind \in {"hit", "miss"} =>
          embedEv.key = embedKey(trimmed(lowerCased(embedEv.text)))
    /\ embedEv.kind = "hit" =>
          /\ embedEv.sent = <<>>
          /\ \E e \in redis : e.key = embedEv.key /\ jsonParse(e.value).scores = embedEv.returned
    /\ embedEv.kind = "miss" =>
          /\ embedEv.sent = embedEv.text
          /\ \E out \in ServiceOutcomes : ~out.threw /\ out.embedding = embedEv.returned
          /\ \E e \in redis : e.key = embedEv.key /\ jsonParse(e.value).scores = embedEv.returned
    /\ \A e \in redis : Cardinality(redisGet(e.key)) = 1

====
